---- MODULE Spec2Model ----
(***************************************************************************)
(* Model of the Witnet node's ChainManager: the peer-consensus arbiter     *)
(* (PeersBeacons::superblock_consensus), the block batch splitter and the  *)
(* chain state machine driven by EpochNotification, PeersBeacons,          *)
(* AddBlocks and AddCandidates (node/src/actors/chain_manager).            *)
(*                                                                         *)
(* Hashes are small naturals, a block is identified by its hash, a peer is *)
(* identified by its position in the pb list.  Option<T> is encoded as a   *)
(* tagged record: None, Some(v).                                           *)
(***************************************************************************)
EXTENDS Integers, Sequences, FiniteSets

VARIABLES
    sm_state,                \* ChainManager.sm_state
    current_epoch,           \* ChainManager.current_epoch : Option<Epoch>
    peers_beacons_received,  \* ChainManager.peers_beacons_received
    chain_state,             \* ChainManager.chain_state (its highest block beacon)
    storage,                 \* the chain state kept under chain_state_key(magic)
    sync_target,             \* ChainManager.sync_target : Option<SyncTarget>
    candidates,              \* ChainManager.candidates (blocks, keyed by hash)
    seen_candidates,         \* ChainManager.seen_candidates
    best_candidate,          \* ChainManager.best_candidate : Option<BlockCandidate>
    sync_waiting_for_add_blocks_since, \* Option<Epoch>
    panicked,                \* a handler hit an assert!/unwrap and the actor died
    transactions_pool,       \* ChainManager.transactions_pool (pending set, commits)
    mining_enabled,          \* ChainManager.mining_enabled (config.mining.enabled)
    core,                    \* the ChainManager of core/src/actors/chain_manager
    epoch_manager,           \* the EpochManager of core/src/actors/epoch_manager
    controller,              \* the Controller of net/src/server/ws/actors/controller.rs
    app,                     \* the wallet App of wallet/src/actors/app
    last,                    \* observation of the last handled message and what it did
    ticks,                   \* observation of the last two epoch ticks
    arb_in,                  \* arbiter under test: the PeersBeacons value and threshold
    arb_out                  \* arbiter under test: what superblock_consensus returned

vars == << sm_state, current_epoch, peers_beacons_received, chain_state, storage,
           sync_target, candidates, seen_candidates, best_candidate,
           sync_waiting_for_add_blocks_since, panicked, transactions_pool,
           mining_enabled, core, epoch_manager, controller, app, last, ticks,
           arb_in, arb_out >>

chain_vars == << sm_state, current_epoch, peers_beacons_received, chain_state, storage,
                 sync_target, candidates, seen_candidates, best_candidate,
                 sync_waiting_for_add_blocks_since, panicked, transactions_pool,
                 mining_enabled, core, epoch_manager, controller, app, last, ticks >>

arb_vars == << arb_in, arb_out >>

----------------------------------------------------------------------------
(* Bounds of the model *)

\* Highest epoch the epoch manager notifies.
MaxEpoch == 3

\* Highest checkpoint of a block.
MaxBlockEpoch == 1

\* Longest block batch of an AddBlocks message, after its first block is dropped.
MaxBatch == 1

\* Longest pb list given to the arbiter under test.
MaxPeers == 4

----------------------------------------------------------------------------
(* Program constants (configuration) *)

\* consensus_constants.bootstrap_hash
BootstrapHash == 0

\* consensus_constants.genesis_hash
GenesisHash == 1

\* consensus_constants.superblock_period
SuperblockPeriod == 2

\* config.connections.consensus_c
ConsensusC == 60

\* config.connections.outbound_limit: the node of the model keeps one outbound
\* peer, so a PeersBeacons message brings no entry, an entry without beacon, or
\* the beacon of that peer (lists of several peers are the arbiter's, below)
OutboundLimit == 1

\* how_many_epochs_are_we_willing_to_wait_for_one_block_batch
BlocksTimeoutEpochs == 10

----------------------------------------------------------------------------
(* Option<T> *)

None == [tag |-> "None"]

Some(v) == [tag |-> "Some", val |-> v]

IsSome(o) == o.tag = "Some"

IsNone(o) == o.tag = "None"

----------------------------------------------------------------------------
(* Sequence helpers standing for the iterator adaptors of the source *)

\* iter().filter(..).collect(): the elements of s whose index is in keep, in order
RECURSIVE SelectIdx(_, _)
SelectIdx(s, keep) ==
    IF s = << >> THEN << >>
    ELSE LET n == Len(s)
             front == SelectIdx(SubSeq(s, 1, n - 1), keep)
         IN  IF n \in keep THEN Append(front, s[n]) ELSE front

\* std::iter::repeat(x).take(n)
Repeat(x, n) == [i \in 1..n |-> x]

\* number of entries of s equal to x
Count(s, x) == Cardinality({i \in 1..Len(s) : s[i] = x})

\* iter().position(pred): index of the first element whose index is in hits, 0 if none
Position(hits) == IF hits = {} THEN 0 ELSE CHOOSE i \in hits : \A j \in hits : i <= j

----------------------------------------------------------------------------
(* Beacons *)

CheckpointBeacon(cp, h) == [checkpoint |-> cp, hash_prev_block |-> h]

LastBeacon(b, sb) == [highest_block_checkpoint |-> b, highest_superblock_checkpoint |-> sb]

----------------------------------------------------------------------------
(* utils::mode_consensus: the mode of the sequence, or None when two values  *)
(* tie for the mode or the mode is reported by less than threshold percent   *)
(* of the entries.                                                           *)

mode_consensus(s, threshold) ==
    LET vals == {s[i] : i \in 1..Len(s)}
        top == {v \in vals : \A w \in vals : Count(s, v) >= Count(s, w)}
    IN  IF Cardinality(top) = 1
        THEN LET m == CHOOSE v \in top : TRUE
             IN  IF Count(s, m) * 100 >= Len(s) * threshold THEN Some(m) ELSE None
        ELSE None

----------------------------------------------------------------------------
(* PeersBeacons: pb is a sequence of Option<LastBeacon>, the peer being the  *)
(* position; outbound_limit is an Option<u8>.                                *)

\* the number of "no beacon" entries that stand for the missing outbound peers
num_missing_peers(pb, outbound_limit) ==
    IF IsSome(outbound_limit) THEN outbound_limit.val - Len(pb) ELSE 0

\* superblock_votes without the entries of the missing outbound peers
superblock_votes_unpadded(pb, outbound_limit) ==
    [i \in 1..Len(pb) |->
        IF IsSome(pb[i]) THEN Some(pb[i].val.highest_superblock_checkpoint) ELSE None]

\* the superblock beacon each entry votes, None for a peer without beacon
superblock_votes(pb, outbound_limit) ==
    [i \in 1..Len(pb) |->
        IF IsSome(pb[i]) THEN Some(pb[i].val.highest_superblock_checkpoint) ELSE None]
    \o Repeat(None, num_missing_peers(pb, outbound_limit))

\* the block beacons of the peers that reported the consensus superblock
block_beacons(pb, superblock_consensus_beacon) ==
    LET keep == {i \in 1..Len(pb) :
                    /\ IsSome(pb[i])
                    /\ pb[i].val.highest_superblock_checkpoint = superblock_consensus_beacon}
        kept == SelectIdx(pb, keep)
    IN  [i \in 1..Len(kept) |-> kept[i].val.highest_block_checkpoint]

\* block_consensus that calls strong whatever more than half of the peers report
block_consensus_majority(bb, threshold) ==
    LET block_consensus_mode == mode_consensus(bb, 51)
        weak_mode == mode_consensus(bb, 0)
    IN  IF IsSome(block_consensus_mode)
        THEN [beacon |-> block_consensus_mode.val, strong |-> TRUE]
        ELSE [beacon |-> IF IsSome(weak_mode) THEN weak_mode.val ELSE bb[1],
              strong |-> FALSE]

\* block_consensus that breaks a tie with a beacon picked anew at every call (the
\* first call picks the first beacon, a later one the last)
block_consensus_random(bb, threshold) ==
    LET block_consensus_mode == mode_consensus(bb, threshold)
        weak_mode == mode_consensus(bb, 0)
    IN  IF IsSome(block_consensus_mode)
        THEN [beacon |-> block_consensus_mode.val, strong |-> TRUE]
        ELSE [beacon |-> IF IsSome(weak_mode) THEN weak_mode.val
                         ELSE bb[IF IsNone(arb_out) THEN 1 ELSE Len(bb)],
              strong |-> FALSE]

\* block_consensus that breaks a tie with the last beacon instead of the first
block_consensus_last(bb, threshold) ==
    LET block_consensus_mode == mode_consensus(bb, threshold)
        weak_mode == mode_consensus(bb, 0)
    IN  IF IsSome(block_consensus_mode)
        THEN [beacon |-> block_consensus_mode.val, strong |-> TRUE]
        ELSE [beacon |-> IF IsSome(weak_mode) THEN weak_mode.val ELSE bb[Len(bb)],
              strong |-> FALSE]

\* the block beacon and the strong flag, once there is a superblock consensus
block_consensus(bb, threshold) ==
    LET block_consensus_mode == mode_consensus(bb, threshold)
        weak_mode == mode_consensus(bb, 0)
    IN  IF IsSome(block_consensus_mode)
        THEN [beacon |-> block_consensus_mode.val, strong |-> TRUE]
        ELSE [beacon |-> IF IsSome(weak_mode) THEN weak_mode.val ELSE bb[1],
              strong |-> FALSE]

\* Option<(LastBeacon, bool)>
superblock_consensus(pb, outbound_limit, threshold) ==
    LET mode == mode_consensus(superblock_votes(pb, outbound_limit), threshold)
    IN  IF IsSome(mode) /\ IsSome(mode.val)
        THEN LET sbc == mode.val.val
                 bc == block_consensus(block_beacons(pb, sbc), threshold)
             IN  Some([beacon |-> LastBeacon(bc.beacon, sbc), strong |-> bc.strong])
        ELSE None

\* decide_peers_to_unregister that lets the peers without a beacon stay
decide_peers_to_unregister_reporting(pb, beacon) ==
    SelectIdx([i \in 1..Len(pb) |-> i],
              {i \in 1..Len(pb) :
                  IF IsSome(pb[i]) THEN pb[i].val.highest_block_checkpoint # beacon ELSE FALSE})

\* peers whose block beacon differs from beacon, or that sent none
decide_peers_to_unregister(pb, beacon) ==
    SelectIdx([i \in 1..Len(pb) |-> i],
              {i \in 1..Len(pb) :
                  IF IsSome(pb[i]) THEN pb[i].val.highest_block_checkpoint # beacon ELSE TRUE})

\* peers whose superblock beacon differs from superbeacon, or that sent none
decide_peers_to_unregister_s(pb, superbeacon) ==
    SelectIdx([i \in 1..Len(pb) |-> i],
              {i \in 1..Len(pb) :
                  IF IsSome(pb[i]) THEN pb[i].val.highest_superblock_checkpoint # superbeacon
                  ELSE TRUE})

\* peers that sent no beacon
peers_with_no_beacon(pb) ==
    SelectIdx([i \in 1..Len(pb) |-> i], {i \in 1..Len(pb) : IsNone(pb[i])})

----------------------------------------------------------------------------
(* Blocks, chain state, the state machine *)

WaitingConsensus == "WaitingConsensus"

Synchronizing == "Synchronizing"

AlmostSynced == "AlmostSynced"

Synced == "Synced"

StateMachine == {WaitingConsensus, Synchronizing, AlmostSynced, Synced}

\* The genesis block, one block for every later epoch, and a competing block
\* for epoch 1.  The hash identifies the block, so it fixes the checkpoint.
Block(cp, h) == [checkpoint |-> cp, hash |-> h]

GenesisBlock == Block(0, GenesisHash)

BlockUniverse == {GenesisBlock, Block(1, 3)} \cup {Block(e, 2 * e) : e \in 1..MaxBlockEpoch}

\* the beacon of a chain whose top block is b
BlockBeacon(b) == CheckpointBeacon(b.checkpoint, b.hash)

\* the environment and the consensus constants of the configuration
ConfigEnvironment == "Mainnet"

ConfigConsensusConstants == "config"

\* ChainState, reduced to chain_info.highest_block_checkpoint, the environment
\* and consensus constants of chain_info, and whether chain_info and
\* reputation_engine are both present
ChainState(beacon) ==
    [highest_block_checkpoint |-> beacon, environment |-> ConfigEnvironment,
     consensus_constants |-> ConfigConsensusConstants, complete |-> TRUE]

\* the chain state initialize_from_storage creates when storage holds none
NewChainState == ChainState(CheckpointBeacon(0, BootstrapHash))

SyncTarget(block, superblock) == [block |-> block, superblock |-> superblock]

\* ChainManager::update_state_machine
update_state_machine(act, next_state) == [act EXCEPT !.sm_state = next_state]

\* ChainManager::get_chain_beacon
get_chain_beacon(act) == act.chain_state.highest_block_checkpoint

\* a call the handler makes on another component, in the order of the calls
Effect(act, call) == [act EXCEPT !.effects = Append(act.effects, call)]

\* the end of initialize_from_storage: the chain state becomes the state of the
\* actor and is persisted
AdoptChainState(act, new_chain_state) ==
    Effect([act EXCEPT !.chain_state = new_chain_state, !.storage = Some(new_chain_state)],
           "persist_chain_state")

\* the outcome of storage_mngr::get: a failed read is logged and taken as no
\* stored chain state
ReadChainState(act, read_ok) ==
    IF read_ok THEN act ELSE Effect(act, "error_getting_chain_state")

\* initialize_from_storage that adopts a complete stored chain state whatever
\* its environment and consensus constants
initialize_from_storage_unchecked(act, read_ok) ==
    LET chain_state_from_storage == IF read_ok THEN act.storage ELSE None
        read == ReadChainState(act, read_ok)
    IN  IF IsSome(chain_state_from_storage) /\ chain_state_from_storage.val.complete
        THEN AdoptChainState(read, chain_state_from_storage.val)
        ELSE AdoptChainState(read, NewChainState)

\* ChainManager::initialize_from_storage: adopt the complete stored chain state
\* if its environment and consensus constants are those of the configuration,
\* panic if they are not; create a new one when storage holds none, an
\* incomplete one, or cannot be read; persist the chain state.
initialize_from_storage(act, read_ok) ==
    LET chain_state_from_storage == IF read_ok THEN act.storage ELSE None
        read == ReadChainState(act, read_ok)
    IN  IF IsSome(chain_state_from_storage) /\ chain_state_from_storage.val.complete
        THEN IF chain_state_from_storage.val.environment = ConfigEnvironment
             THEN IF chain_state_from_storage.val.consensus_constants
                         = ConfigConsensusConstants
                  THEN AdoptChainState(read, chain_state_from_storage.val)
                  ELSE [read EXCEPT !.panicked = TRUE]
             ELSE [read EXCEPT !.panicked = TRUE]
        ELSE AdoptChainState(read, NewChainState)

\* ChainManager::request_blocks_batch: ask a peer for blocks and start waiting
request_blocks_batch(act) ==
    [act EXCEPT !.sync_waiting_for_add_blocks_since = act.current_epoch,
                !.requested = TRUE]

\* ChainManager::consolidate_block: the block becomes the top of the chain; the
\* chain state snapshot is written when persist holds
consolidate_block(act, block, persist) ==
    LET cs == ChainState(BlockBeacon(block))
    IN  [act EXCEPT !.chain_state = cs,
                    !.storage = IF persist THEN Some(cs) ELSE act.storage,
                    !.consolidated = Append(act.consolidated, block)]

\* ChainManager::process_requested_block: validate (valid is the verdict) and
\* consolidate; the record keeps whether it succeeded
process_requested_block(act, block, valid, persist) ==
    IF valid THEN [ok |-> TRUE, act |-> consolidate_block(act, block, persist)]
    ELSE [ok |-> FALSE, act |-> act]

\* ChainManager::process_candidate: remember the candidate; while the node has
\* no synchronized chain it is only stored, otherwise it becomes the best
\* candidate when it is valid and better than the current one (accept)
process_candidate(act, block, accept) ==
    IF block \in act.seen_candidates THEN act
    ELSE LET seen == [act EXCEPT !.seen_candidates = act.seen_candidates \cup {block}]
         IN  IF act.sm_state \in {WaitingConsensus, Synchronizing}
             THEN [seen EXCEPT !.candidates = act.candidates \cup {block}]
             ELSE IF accept /\ act.current_epoch = Some(block.checkpoint)
                  THEN [seen EXCEPT !.best_candidate = Some(block)]
                  ELSE seen

----------------------------------------------------------------------------
(* The transactions pool, reduced to its pending set and its commit          *)
(* transactions (the partition is "co" in the source); a transaction is a    *)
(* small natural.                                                            *)

TransactionsPool(pending, co) == [pending |-> pending, co |-> co]

EmptyPool == TransactionsPool({}, {})

----------------------------------------------------------------------------
(* Handler<EpochNotification<EveryEpochPayload>> *)

\* a missed epoch notification
IsGap(last_checked_epoch, checkpoint) ==
    IsSome(last_checked_epoch) /\ checkpoint - last_checked_epoch.val # 1

\* NoBeaconsFallback that keeps the candidates
NoBeaconsFallbackKeepingCandidates(act) ==
    IF ~act.peers_beacons_received
    THEN update_state_machine(act, WaitingConsensus)
    ELSE act

\* no beacons since the last tick: fall back and drop the candidates
NoBeaconsFallback(act) ==
    IF ~act.peers_beacons_received
    THEN [update_state_machine(act, WaitingConsensus)
            EXCEPT !.candidates = {}, !.seen_candidates = {}]
    ELSE act

\* GapFallback that lets a missed tick pass
GapFallbackIgnored(act, last_checked_epoch, checkpoint) == act

\* a missed tick: fall back
GapFallback(act, last_checked_epoch, checkpoint) ==
    IF IsGap(last_checked_epoch, checkpoint)
    THEN update_state_machine(act, WaitingConsensus)
    ELSE act

\* TransactionsPool::clear_pending_transactions
clear_pending_transactions(act) ==
    Effect([act EXCEPT !.transactions_pool.pending = {}], "clear_pending_transactions")

\* TransactionsPool::clear_commits
clear_commits(act) ==
    Effect([act EXCEPT !.transactions_pool.co = {}], "clear_commits")

\* SetLastBeacon and the broadcast of SendLastBeacon to the sessions manager
SendLastBeacon(act) == Effect(Effect(act, "SetLastBeacon"), "SendLastBeacon")

\* the WaitingConsensus arm: send the last beacon (chain_info is always there
\* once initialize_from_storage has run)
TickWaitingConsensus(act) == SendLastBeacon(act)

\* TickSynced that clears the commits before it consolidates the candidate
TickSyncedCommitsFirst(act) ==
    LET cleared == clear_commits(act)
        consolidated == IF IsSome(cleared.best_candidate)
                        THEN Effect(consolidate_block([cleared EXCEPT !.best_candidate = None],
                                                      cleared.best_candidate.val, TRUE),
                                    "consolidate_block")
                        ELSE cleared
        sent == SendLastBeacon(consolidated)
        built == IF sent.current_epoch.val % SuperblockPeriod = 0
                 THEN Effect(sent, "create_and_broadcast_superblock")
                 ELSE sent
        mining == IF built.mining_enabled
                  THEN Effect(built, "try_mine_data_request")
                  ELSE built
    IN  [mining EXCEPT !.candidates = {}, !.seen_candidates = {}]

\* TickSynced that builds the superblock before it sends the last beacon
TickSyncedSuperblockFirst(act) ==
    LET consolidated == IF IsSome(act.best_candidate)
                        THEN Effect(consolidate_block([act EXCEPT !.best_candidate = None],
                                                      act.best_candidate.val, TRUE),
                                    "consolidate_block")
                        ELSE act
        built == IF consolidated.current_epoch.val % SuperblockPeriod = 0
                 THEN Effect(consolidated, "create_and_broadcast_superblock")
                 ELSE consolidated
        sent == SendLastBeacon(built)
        cleared == clear_commits(sent)
        mining == IF cleared.mining_enabled
                  THEN Effect(cleared, "try_mine_data_request")
                  ELSE cleared
    IN  [mining EXCEPT !.candidates = {}, !.seen_candidates = {}]

\* the AlmostSynced | Synced arm: consolidate the best candidate, send the last
\* beacon, build the superblock, clear the commits, mine the data requests,
\* clear the candidates
TickSynced(act) ==
    LET consolidated == IF IsSome(act.best_candidate)
                        THEN Effect(consolidate_block([act EXCEPT !.best_candidate = None],
                                                      act.best_candidate.val, TRUE),
                                    "consolidate_block")
                        ELSE act
        sent == SendLastBeacon(consolidated)
        built == IF sent.current_epoch.val % SuperblockPeriod = 0
                 THEN Effect(sent, "create_and_broadcast_superblock")
                 ELSE sent
        cleared == clear_commits(built)
        mining == IF cleared.mining_enabled
                  THEN Effect(cleared, "try_mine_data_request")
                  ELSE cleared
    IN  [mining EXCEPT !.candidates = {}, !.seen_candidates = {}]

EpochNotificationHandler(act, checkpoint) ==
    LET last_checked_epoch == act.current_epoch
        a0 == [act EXCEPT !.current_epoch = Some(checkpoint)]
        a1 == clear_pending_transactions(a0)
        a2 == NoBeaconsFallback(a1)
        a3 == GapFallback(a2, last_checked_epoch, checkpoint)
        a4 == [a3 EXCEPT !.peers_beacons_received = FALSE]
    IN  CASE a4.sm_state = WaitingConsensus -> TickWaitingConsensus(a4)
          [] a4.sm_state = Synchronizing -> a4
          [] OTHER -> TickSynced(a4)

----------------------------------------------------------------------------
(* Handler<PeersBeacons> *)

\* ceil(outbound_limit * consensus_threshold / 100), 1 without outbound limit
peers_needed_for_consensus(outbound_limit, consensus_threshold) ==
    IF IsSome(outbound_limit)
    THEN (outbound_limit.val * consensus_threshold + 99) \div 100
    ELSE 1

\* PeersToUnregister without the branch for too few outbound peers
PeersToUnregisterNoQuorumCheck(act, pb, outbound_limit, beacon_consensus) ==
    IF IsSome(beacon_consensus)
    THEN IF beacon_consensus.val.strong
         THEN decide_peers_to_unregister(
                  pb, beacon_consensus.val.beacon.highest_block_checkpoint)
         ELSE decide_peers_to_unregister_s(
                  pb, beacon_consensus.val.beacon.highest_superblock_checkpoint)
    ELSE IF act.sm_state = AlmostSynced \/ act.sm_state = Synced
         THEN decide_peers_to_unregister(pb, get_chain_beacon(act))
         ELSE [i \in 1..Len(pb) |-> i]

\* the peers to unregister as decided before the state is looked at
PeersToUnregister(act, pb, outbound_limit, beacon_consensus) ==
    IF IsSome(beacon_consensus)
    THEN IF beacon_consensus.val.strong
         THEN decide_peers_to_unregister(
                  pb, beacon_consensus.val.beacon.highest_block_checkpoint)
         ELSE decide_peers_to_unregister_s(
                  pb, beacon_consensus.val.beacon.highest_superblock_checkpoint)
    ELSE IF Len(pb) < peers_needed_for_consensus(outbound_limit, ConsensusC)
         THEN << >>
         ELSE IF act.sm_state = AlmostSynced \/ act.sm_state = Synced
              THEN decide_peers_to_unregister(pb, get_chain_beacon(act))
              ELSE [i \in 1..Len(pb) |-> i]

\* ReviewCandidates that starts synchronizing without asking for the blocks
ReviewCandidatesNoRequest(act, consensus_beacon, valid, persist) ==
    update_state_machine([act EXCEPT !.candidates = {}, !.seen_candidates = {}],
                         Synchronizing)

\* WaitingConsensus, consensus on a chain we neither have nor fork from: take the
\* consensus block from the candidates if it is there, else request a batch
ReviewCandidates(act, consensus_beacon, valid, persist) ==
    LET found == {b \in act.candidates : b.hash = consensus_beacon.hash_prev_block}
        cleared == [act EXCEPT !.candidates = {}, !.seen_candidates = {}]
    IN  IF found # {}
        THEN LET res == process_requested_block(
                            cleared, CHOOSE b \in found : TRUE, valid, persist)
             IN  IF res.ok
                 THEN update_state_machine(res.act, AlmostSynced)
                 ELSE update_state_machine(request_blocks_batch(res.act), Synchronizing)
        ELSE update_state_machine(request_blocks_batch(cleared), Synchronizing)

\* WaitingConsensusArm that calls the node Synced as soon as it agrees with its peers
WaitingConsensusArmToSynced(act, consensus, read_ok, valid, persist) ==
    LET consensus_beacon == consensus.highest_block_checkpoint
        a1 == [act EXCEPT !.sync_target =
                  Some(SyncTarget(consensus_beacon, consensus.highest_superblock_checkpoint))]
        our_beacon == get_chain_beacon(a1)
    IN  IF consensus_beacon.hash_prev_block = BootstrapHash
        THEN update_state_machine(a1, WaitingConsensus)
        ELSE IF our_beacon = consensus_beacon
        THEN update_state_machine(a1, Synced)
        ELSE IF /\ our_beacon.checkpoint = consensus_beacon.checkpoint
                /\ our_beacon.hash_prev_block # consensus_beacon.hash_prev_block
        THEN update_state_machine(initialize_from_storage(a1, read_ok), WaitingConsensus)
        ELSE ReviewCandidates(a1, consensus_beacon, valid, persist)

\* the WaitingConsensus arm when there is a consensus
WaitingConsensusArm(act, consensus, read_ok, valid, persist) ==
    LET consensus_beacon == consensus.highest_block_checkpoint
        a1 == [act EXCEPT !.sync_target =
                  Some(SyncTarget(consensus_beacon, consensus.highest_superblock_checkpoint))]
        our_beacon == get_chain_beacon(a1)
    IN  IF consensus_beacon.hash_prev_block = BootstrapHash
        THEN update_state_machine(a1, WaitingConsensus)
        ELSE IF our_beacon = consensus_beacon
        THEN update_state_machine(a1, AlmostSynced)
        ELSE IF /\ our_beacon.checkpoint = consensus_beacon.checkpoint
                /\ our_beacon.hash_prev_block # consensus_beacon.hash_prev_block
        THEN update_state_machine(initialize_from_storage(a1, read_ok), WaitingConsensus)
        ELSE ReviewCandidates(a1, consensus_beacon, valid, persist)

\* SynchronizingArm that falls back on a fork without restoring the chain state
SynchronizingArmNoRestore(act, consensus, read_ok) ==
    LET consensus_beacon == consensus.highest_block_checkpoint
        a1 == [act EXCEPT !.sync_target =
                  Some(SyncTarget(consensus_beacon, consensus.highest_superblock_checkpoint))]
        our_beacon == get_chain_beacon(a1)
    IN  IF our_beacon = consensus_beacon
        THEN update_state_machine(a1, AlmostSynced)
        ELSE IF /\ our_beacon.checkpoint = consensus_beacon.checkpoint
                /\ our_beacon.hash_prev_block # consensus_beacon.hash_prev_block
        THEN update_state_machine(a1, WaitingConsensus)
        ELSE update_state_machine(a1, Synchronizing)

\* the Synchronizing arm when there is a consensus
SynchronizingArm(act, consensus, read_ok) ==
    LET consensus_beacon == consensus.highest_block_checkpoint
        a1 == [act EXCEPT !.sync_target =
                  Some(SyncTarget(consensus_beacon, consensus.highest_superblock_checkpoint))]
        our_beacon == get_chain_beacon(a1)
    IN  IF our_beacon = consensus_beacon
        THEN update_state_machine(a1, AlmostSynced)
        ELSE IF /\ our_beacon.checkpoint = consensus_beacon.checkpoint
                /\ our_beacon.hash_prev_block # consensus_beacon.hash_prev_block
        THEN update_state_machine(initialize_from_storage(a1, read_ok), WaitingConsensus)
        ELSE update_state_machine(a1, Synchronizing)

\* SyncedArm that rolls back when the peers agree on another block
SyncedArmRollback(act, pb, beacon_consensus, peers_to_unregister) ==
    LET our_beacon == get_chain_beacon(act)
    IN  IF IsSome(beacon_consensus)
        THEN IF beacon_consensus.val.beacon.highest_block_checkpoint = our_beacon
             THEN [(IF act.sm_state = AlmostSynced
                    THEN update_state_machine(act, Synced)
                    ELSE act)
                      EXCEPT !.unregister = peers_to_unregister]
             ELSE update_state_machine(
                      initialize_from_storage(
                          [act EXCEPT !.sync_target =
                              Some(SyncTarget(
                                  beacon_consensus.val.beacon.highest_block_checkpoint,
                                  beacon_consensus.val.beacon.highest_superblock_checkpoint))],
                          TRUE),
                      WaitingConsensus)
        ELSE [act EXCEPT !.unregister = peers_with_no_beacon(pb)]

\* SyncedArm that returns the list decided before the state was looked at
SyncedArmDecidedList(act, pb, beacon_consensus, peers_to_unregister) ==
    LET our_beacon == get_chain_beacon(act)
    IN  IF /\ IsSome(beacon_consensus)
           /\ beacon_consensus.val.beacon.highest_block_checkpoint = our_beacon
        THEN [(IF act.sm_state = AlmostSynced
               THEN update_state_machine(act, Synced)
               ELSE act)
                 EXCEPT !.unregister = peers_to_unregister]
        ELSE [act EXCEPT !.unregister = peers_to_unregister]

\* SyncedArm that takes a consensus on another block as its sync target
SyncedArmAdoptingTarget(act, pb, beacon_consensus, peers_to_unregister) ==
    LET our_beacon == get_chain_beacon(act)
    IN  IF /\ IsSome(beacon_consensus)
           /\ beacon_consensus.val.beacon.highest_block_checkpoint = our_beacon
        THEN [(IF act.sm_state = AlmostSynced
               THEN update_state_machine(act, Synced)
               ELSE act)
                 EXCEPT !.unregister = peers_to_unregister]
        ELSE IF IsSome(beacon_consensus)
        THEN [act EXCEPT !.unregister = peers_with_no_beacon(pb),
                         !.sync_target =
                             Some(SyncTarget(
                                 beacon_consensus.val.beacon.highest_block_checkpoint,
                                 beacon_consensus.val.beacon.highest_superblock_checkpoint))]
        ELSE [act EXCEPT !.unregister = peers_with_no_beacon(pb)]

\* SyncedArm that never promotes an AlmostSynced node
SyncedArmNoPromotion(act, pb, beacon_consensus, peers_to_unregister) ==
    LET our_beacon == get_chain_beacon(act)
    IN  IF /\ IsSome(beacon_consensus)
           /\ beacon_consensus.val.beacon.highest_block_checkpoint = our_beacon
        THEN [act EXCEPT !.unregister = peers_to_unregister]
        ELSE [act EXCEPT !.unregister = peers_with_no_beacon(pb)]

\* the AlmostSynced | Synced arm
SyncedArm(act, pb, beacon_consensus, peers_to_unregister) ==
    LET our_beacon == get_chain_beacon(act)
    IN  IF /\ IsSome(beacon_consensus)
           /\ beacon_consensus.val.beacon.highest_block_checkpoint = our_beacon
        THEN [(IF act.sm_state = AlmostSynced
               THEN update_state_machine(act, Synced)
               ELSE act)
                 EXCEPT !.unregister = peers_to_unregister]
        ELSE [act EXCEPT !.unregister = peers_with_no_beacon(pb)]

\* TimeoutRerequest that waits for more than BlocksTimeoutEpochs epochs
TimeoutRerequestLate(act) ==
    IF /\ act.sm_state = Synchronizing
       /\ IsSome(act.sync_waiting_for_add_blocks_since)
       /\ act.current_epoch.val - act.sync_waiting_for_add_blocks_since.val
              > BlocksTimeoutEpochs
    THEN request_blocks_batch(act)
    ELSE act

\* the blocks batch did not arrive in time: request it again
TimeoutRerequest(act) ==
    IF /\ act.sm_state = Synchronizing
       /\ IsSome(act.sync_waiting_for_add_blocks_since)
       /\ act.current_epoch.val - act.sync_waiting_for_add_blocks_since.val
              >= BlocksTimeoutEpochs
    THEN request_blocks_batch(act)
    ELSE act

PeersBeaconsHandler(act, pb, outbound_limit, read_ok, valid, persist) ==
    LET a1 == [act EXCEPT !.peers_beacons_received =
                            IF pb # << >> THEN TRUE ELSE act.peers_beacons_received]
        beacon_consensus == superblock_consensus(pb, outbound_limit, ConsensusC)
        peers_to_unregister == PeersToUnregister(a1, pb, outbound_limit, beacon_consensus)
        a2 == [a1 EXCEPT !.unregister = peers_to_unregister,
                         !.consensus = beacon_consensus]
        a3 == CASE a2.sm_state = WaitingConsensus ->
                     IF IsSome(beacon_consensus)
                     THEN WaitingConsensusArm(a2, beacon_consensus.val.beacon,
                                              read_ok, valid, persist)
                     ELSE a2
                [] a2.sm_state = Synchronizing ->
                     IF IsSome(beacon_consensus)
                     THEN SynchronizingArm(a2, beacon_consensus.val.beacon, read_ok)
                     ELSE update_state_machine(a2, WaitingConsensus)
                [] OTHER -> SyncedArm(a2, pb, beacon_consensus, peers_to_unregister)
    IN  TimeoutRerequest(a3)

----------------------------------------------------------------------------
(* split_blocks_batch_at_target, the key of a block being its checkpoint *)

TargetNotReached(blocks) == [tag |-> "TargetNotReached", blocks |-> blocks]

SyncWithoutCandidate(consolidate, remaining) ==
    [tag |-> "SyncWithoutCandidate", consolidate |-> consolidate, remaining |-> remaining]

SyncWithCandidate(consolidate, candidate, remaining) ==
    [tag |-> "SyncWithCandidate", consolidate |-> consolidate,
     candidate |-> candidate, remaining |-> remaining]

WrongBlocksForSuperblock(wrong_index, consolidated, current) ==
    [tag |-> "WrongBlocksForSuperblock", wrong_index |-> wrong_index,
     consolidated_superblock_index |-> consolidated,
     current_superblock_index |-> current]

\* the assert! of the splitter failed
SplitPanic == [tag |-> "Panic"]

\* saturating_sub that subtracts nothing
saturating_sub_skipped(a, b) == a

\* u32::saturating_sub
saturating_sub(a, b) == IF a >= b THEN a - b ELSE 0

\* SplitAt that splits one element too late
SplitAtAfter(blocks, target) ==
    LET split_position == Position({i \in 1..Len(blocks) : blocks[i].checkpoint >= target})
    IN  IF split_position = 0
        THEN [head |-> blocks, tail |-> << >>]
        ELSE [head |-> SubSeq(blocks, 1, split_position),
              tail |-> SubSeq(blocks, split_position + 1, Len(blocks))]

\* SplitAt that leaves the element at the split position out
SplitAtDropping(blocks, target) ==
    LET split_position == Position({i \in 1..Len(blocks) : blocks[i].checkpoint >= target})
    IN  IF split_position = 0
        THEN [head |-> blocks, tail |-> << >>]
        ELSE [head |-> SubSeq(blocks, 1, split_position - 1),
              tail |-> SubSeq(blocks, split_position + 1, Len(blocks))]

\* Vec::split_off at the first element whose key is at least target
SplitAt(blocks, target) ==
    LET split_position == Position({i \in 1..Len(blocks) : blocks[i].checkpoint >= target})
    IN  IF split_position = 0
        THEN [head |-> blocks, tail |-> << >>]
        ELSE [head |-> SubSeq(blocks, 1, split_position - 1),
              tail |-> SubSeq(blocks, split_position, Len(blocks))]

\* split_blocks_batch_at_target with the two shapes swapped: a candidate on even
\* superblock distance, none on odd
split_blocks_batch_at_target_swapped(blocks, epoch, target, superblock_period) ==
    LET current_superblock_index == epoch \div superblock_period
        target_superblock == target.superblock.checkpoint
    IN  IF current_superblock_index < target_superblock THEN SplitPanic
        ELSE
        LET first_valid_block ==
                (current_superblock_index
                    - ((current_superblock_index - target_superblock) % 2)) * superblock_period
            wrong_index == Position({i \in 1..Len(blocks) :
                               /\ blocks[i].checkpoint >= target_superblock * superblock_period
                               /\ blocks[i].checkpoint < first_valid_block})
            last_epoch == IF blocks = << >> THEN 0 ELSE blocks[Len(blocks)].checkpoint
        IN  IF wrong_index # 0 /\ target_superblock # 0
            THEN WrongBlocksForSuperblock(blocks[wrong_index].checkpoint,
                                          target_superblock, current_superblock_index)
            ELSE IF /\ last_epoch < saturating_sub(target_superblock * superblock_period, 1)
                    /\ last_epoch < target.block.checkpoint
            THEN TargetNotReached(blocks)
            ELSE IF (current_superblock_index - target_superblock) % 2 = 1
            THEN LET cut == SplitAt(blocks, target_superblock * superblock_period)
                 IN  SyncWithoutCandidate(cut.head, cut.tail)
            ELSE LET cut == SplitAt(blocks, target_superblock * superblock_period)
                     cut2 == SplitAt(cut.tail, current_superblock_index * superblock_period)
                 IN  SyncWithCandidate(cut.head, cut2.head, cut2.tail)

\* split_blocks_batch_at_target that also rejects reverted blocks when the target
\* superblock index is 0
split_blocks_batch_at_target_zero_checked(blocks, epoch, target, superblock_period) ==
    LET current_superblock_index == epoch \div superblock_period
        target_superblock == target.superblock.checkpoint
    IN  IF current_superblock_index < target_superblock THEN SplitPanic
        ELSE
        LET first_valid_block ==
                (current_superblock_index
                    - ((current_superblock_index - target_superblock) % 2)) * superblock_period
            wrong_index == Position({i \in 1..Len(blocks) :
                               /\ blocks[i].checkpoint >= target_superblock * superblock_period
                               /\ blocks[i].checkpoint < first_valid_block})
            last_epoch == IF blocks = << >> THEN 0 ELSE blocks[Len(blocks)].checkpoint
        IN  IF wrong_index # 0
            THEN WrongBlocksForSuperblock(blocks[wrong_index].checkpoint,
                                          target_superblock, current_superblock_index)
            ELSE IF /\ last_epoch < saturating_sub(target_superblock * superblock_period, 1)
                    /\ last_epoch < target.block.checkpoint
            THEN TargetNotReached(blocks)
            ELSE IF (current_superblock_index - target_superblock) % 2 = 0
            THEN LET cut == SplitAt(blocks, target_superblock * superblock_period)
                 IN  SyncWithoutCandidate(cut.head, cut.tail)
            ELSE LET cut == SplitAt(blocks, target_superblock * superblock_period)
                     cut2 == SplitAt(cut.tail, current_superblock_index * superblock_period)
                 IN  SyncWithCandidate(cut.head, cut2.head, cut2.tail)

\* split_blocks_batch_at_target for which an empty batch never reaches the target
split_blocks_batch_at_target_empty_waits(blocks, epoch, target, superblock_period) ==
    LET current_superblock_index == epoch \div superblock_period
        target_superblock == target.superblock.checkpoint
    IN  IF current_superblock_index < target_superblock THEN SplitPanic
        ELSE
        LET first_valid_block ==
                (current_superblock_index
                    - ((current_superblock_index - target_superblock) % 2)) * superblock_period
            wrong_index == Position({i \in 1..Len(blocks) :
                               /\ blocks[i].checkpoint >= target_superblock * superblock_period
                               /\ blocks[i].checkpoint < first_valid_block})
            last_epoch == IF blocks = << >> THEN 0 ELSE blocks[Len(blocks)].checkpoint
        IN  IF wrong_index # 0 /\ target_superblock # 0
            THEN WrongBlocksForSuperblock(blocks[wrong_index].checkpoint,
                                          target_superblock, current_superblock_index)
            ELSE IF \/ blocks = << >>
                    \/ last_epoch < saturating_sub(target_superblock * superblock_period, 1)
                    /\ last_epoch < target.block.checkpoint
            THEN TargetNotReached(blocks)
            ELSE IF (current_superblock_index - target_superblock) % 2 = 0
            THEN LET cut == SplitAt(blocks, target_superblock * superblock_period)
                 IN  SyncWithoutCandidate(cut.head, cut.tail)
            ELSE LET cut == SplitAt(blocks, target_superblock * superblock_period)
                     cut2 == SplitAt(cut.tail, current_superblock_index * superblock_period)
                 IN  SyncWithCandidate(cut.head, cut2.head, cut2.tail)

split_blocks_batch_at_target(blocks, epoch, target, superblock_period) ==
    LET current_superblock_index == epoch \div superblock_period
        target_superblock == target.superblock.checkpoint
    IN  IF current_superblock_index < target_superblock THEN SplitPanic
        ELSE
        LET first_valid_block ==
                (current_superblock_index
                    - ((current_superblock_index - target_superblock) % 2)) * superblock_period
            wrong_index == Position({i \in 1..Len(blocks) :
                               /\ blocks[i].checkpoint >= target_superblock * superblock_period
                               /\ blocks[i].checkpoint < first_valid_block})
            last_epoch == IF blocks = << >> THEN 0 ELSE blocks[Len(blocks)].checkpoint
        IN  IF wrong_index # 0 /\ target_superblock # 0
            THEN WrongBlocksForSuperblock(blocks[wrong_index].checkpoint,
                                          target_superblock, current_superblock_index)
            ELSE IF /\ last_epoch < saturating_sub(target_superblock * superblock_period, 1)
                    /\ last_epoch < target.block.checkpoint
            THEN TargetNotReached(blocks)
            ELSE IF (current_superblock_index - target_superblock) % 2 = 0
            THEN LET cut == SplitAt(blocks, target_superblock * superblock_period)
                 IN  SyncWithoutCandidate(cut.head, cut.tail)
            ELSE LET cut == SplitAt(blocks, target_superblock * superblock_period)
                     cut2 == SplitAt(cut.tail, current_superblock_index * superblock_period)
                 IN  SyncWithCandidate(cut.head, cut2.head, cut2.tail)

----------------------------------------------------------------------------
(* Handler<AddBlocks> *)

\* ChainManager::process_blocks_batch: the blocks are processed in order until one is
\* invalid; budget is how many more blocks of this message validate.  When a
\* block fails after others were processed, the chain state is restored.
RECURSIVE ProcessBlocks(_, _, _, _, _, _)
ProcessBlocks(act, blocks, num_processed_blocks, budget, read_ok, persist) ==
    IF num_processed_blocks = Len(blocks)
    THEN [batch_succeeded |-> TRUE, num_processed_blocks |-> num_processed_blocks,
          act |-> act]
    ELSE LET res == process_requested_block(act, blocks[num_processed_blocks + 1],
                                            num_processed_blocks < budget, persist)
         IN  IF res.ok
             THEN ProcessBlocks(res.act, blocks, num_processed_blocks + 1,
                                budget, read_ok, persist)
             ELSE [batch_succeeded |-> FALSE,
                   num_processed_blocks |-> num_processed_blocks,
                   act |-> IF num_processed_blocks > 0
                           THEN initialize_from_storage(act, read_ok)
                           ELSE act]

process_blocks_batch(act, blocks, budget, read_ok, persist) ==
    ProcessBlocks(act, blocks, 0, budget, read_ok, persist)

\* ChainManager::process_first_batch: a failed batch ends the synchronization round
process_first_batch(act, blocks, budget, read_ok, persist) ==
    LET res == process_blocks_batch(act, blocks, budget, read_ok, persist)
    IN  IF res.batch_succeeded THEN res
        ELSE [res EXCEPT !.act =
                 [update_state_machine(res.act, WaitingConsensus)
                    EXCEPT !.sync_waiting_for_add_blocks_since = None]]

\* the outcomes of superblock_consolidation_is_needed and try_consolidate_superblock
SuperblockOutcomes == {"not_needed", "consolidated", "failed", "failed_reverted"}

\* the superblock of the target is built and compared with the target: when it
\* matches the chain state is persisted; when it fails the chained closures do
\* not run, and the chain state may be rolled back
try_consolidate_superblock(act, sb, read_ok) ==
    CASE sb = "consolidated" -> [act EXCEPT !.storage = Some(act.chain_state)]
      [] sb = "failed_reverted" ->
             update_state_machine(initialize_from_storage(act, read_ok), WaitingConsensus)
      [] OTHER -> act

\* SyncWithoutCandidateFuture that ends the round in AlmostSynced
SyncWithoutCandidateFutureAlmostSynced(act, remaining, budget, read_ok, persist) ==
    process_blocks_batch(update_state_machine(act, AlmostSynced),
                         remaining, budget, read_ok, persist).act

\* the future chained after the consolidation of a SyncWithoutCandidate batch
SyncWithoutCandidateFuture(act, remaining, budget, read_ok, persist) ==
    process_blocks_batch(update_state_machine(act, WaitingConsensus),
                         remaining, budget, read_ok, persist).act

\* the future chained after the consolidation of a SyncWithCandidate batch
SyncWithCandidateFuture(act, candidate, remaining, budget, vote_ok, read_ok, persist) ==
    LET r1 == process_blocks_batch(act, candidate, budget, read_ok, persist)
        a1 == update_state_machine(r1.act, WaitingConsensus)
        a2 == [a1 EXCEPT !.vote = IF vote_ok THEN "ok" ELSE "failed"]
        r2 == process_blocks_batch(a2, remaining, budget - Len(candidate), read_ok, persist)
    IN  IF ~r1.batch_succeeded THEN a1
        ELSE IF ~vote_ok THEN a2
        ELSE IF ~r2.batch_succeeded
        THEN [update_state_machine(r2.act, WaitingConsensus)
                EXCEPT !.sync_waiting_for_add_blocks_since = None]
        ELSE update_state_machine(r2.act, WaitingConsensus)

\* the Synchronizing arm, for a message with at least one block and a sync target
SynchronizingBatch(act, blocks, budget, sb, vote_ok, read_ok, persist) ==
    LET batches == split_blocks_batch_at_target(
                       Tail(blocks), act.current_epoch.val, act.sync_target.val,
                       SuperblockPeriod)
        a0 == [act EXCEPT !.split = batches.tag]
    IN  CASE batches.tag = "Panic" -> [a0 EXCEPT !.panicked = TRUE]
          [] batches.tag = "TargetNotReached" ->
                LET r == process_first_batch(a0, batches.blocks, budget, read_ok, persist)
                IN  IF r.batch_succeeded THEN request_blocks_batch(r.act) ELSE r.act
          [] batches.tag = "WrongBlocksForSuperblock" ->
                [update_state_machine(a0, WaitingConsensus)
                    EXCEPT !.sync_waiting_for_add_blocks_since = None]
          [] OTHER ->
                LET r == process_first_batch(a0, batches.consolidate, budget,
                                             read_ok, persist)
                    a1 == try_consolidate_superblock(
                              [r.act EXCEPT !.superblock = sb], sb, read_ok)
                    left == budget - Len(batches.consolidate)
                IN  IF ~r.batch_succeeded THEN r.act
                    ELSE IF sb \in {"failed", "failed_reverted"} THEN a1
                    ELSE IF batches.tag = "SyncWithoutCandidate"
                    THEN SyncWithoutCandidateFuture(a1, batches.remaining, left,
                                                    read_ok, persist)
                    ELSE SyncWithCandidateFuture(a1, batches.candidate, batches.remaining,
                                                 left, vote_ok, read_ok, persist)

\* If we are not synchronizing, forget about when we started synchronizing
ForgetSyncStart(act) ==
    IF act.sm_state # Synchronizing
    THEN [act EXCEPT !.sync_waiting_for_add_blocks_since = None]
    ELSE act

\* AddBlocksHandler that processes any single block in WaitingConsensus
AddBlocksHandlerAnySingleBlock(act, blocks, budget, sb, vote_ok, read_ok, persist) ==
    CASE act.sm_state = WaitingConsensus ->
            ForgetSyncStart(
                IF Len(blocks) = 1
                THEN process_requested_block(act, blocks[1], budget > 0, persist).act
                ELSE act)
      [] act.sm_state \in {AlmostSynced, Synced} -> ForgetSyncStart(act)
      [] OTHER ->
            IF IsNone(act.sync_target) THEN act
            ELSE IF blocks = << >>
            THEN initialize_from_storage(
                     update_state_machine(act, WaitingConsensus), read_ok)
            ELSE IF IsNone(act.current_epoch) THEN [act EXCEPT !.panicked = TRUE]
            ELSE SynchronizingBatch(act, blocks, budget, sb, vote_ok, read_ok, persist)

AddBlocksHandler(act, blocks, budget, sb, vote_ok, read_ok, persist) ==
    CASE act.sm_state = WaitingConsensus ->
            ForgetSyncStart(
                IF Len(blocks) = 1 /\ blocks[1].hash = GenesisHash
                THEN process_requested_block(act, blocks[1], budget > 0, persist).act
                ELSE act)
      [] act.sm_state \in {AlmostSynced, Synced} -> ForgetSyncStart(act)
      [] OTHER ->
            IF IsNone(act.sync_target) THEN act
            ELSE IF blocks = << >>
            THEN initialize_from_storage(
                     update_state_machine(act, WaitingConsensus), read_ok)
            ELSE IF IsNone(act.current_epoch) THEN [act EXCEPT !.panicked = TRUE]
            ELSE SynchronizingBatch(act, blocks, budget, sb, vote_ok, read_ok, persist)

\* Handler<AddCandidates>, one candidate block
AddCandidatesHandler(act, block, accept) == process_candidate(act, block, accept)

----------------------------------------------------------------------------
(* The messages the ChainManager can receive *)

SeqsUpTo(S, n) == UNION {[1..k -> S] : k \in 0..n}

\* the superblock beacon of a peer whose chain reaches checkpoint cp
SuperblockBeaconAt(cp) == CheckpointBeacon(cp \div SuperblockPeriod, cp \div SuperblockPeriod)

\* the beacons a peer can report: nothing consolidated yet, or any block as its top
PeerLastBeacons ==
    {LastBeacon(b, SuperblockBeaconAt(b.checkpoint)) :
        b \in {CheckpointBeacon(0, BootstrapHash)} \cup {BlockBeacon(x) : x \in BlockUniverse}}

\* the pb lists of a PeersBeacons message: at most outbound_limit peers
PbSet == SeqsUpTo({None} \cup {Some(lb) : lb \in PeerLastBeacons}, OutboundLimit)

\* the blocks of an AddBlocks message: none, one block that is not the genesis
\* block, or the genesis block (in Synchronizing, the block the sender repeats
\* and the handler drops) followed by blocks of increasing epochs
BatchSet ==
    {<< >>, <<Block(1, 2)>>} \cup
    {<<GenesisBlock>> \o rest :
        rest \in {r \in SeqsUpTo(BlockUniverse \ {GenesisBlock}, MaxBatch) :
                     \A i, j \in 1..Len(r) : i < j => r[i].checkpoint < r[j].checkpoint}}

\* the candidates peers propose: the block of the current epoch that extends
\* the chain
CandidateSet ==
    {b \in BlockUniverse \ {GenesisBlock} :
        current_epoch = Some(b.checkpoint) /\ b.hash = 2 * b.checkpoint}

----------------------------------------------------------------------------
(* The actor: its fields as a record, and the observations a handler leaves *)

Self ==
    [sm_state |-> sm_state, current_epoch |-> current_epoch,
     peers_beacons_received |-> peers_beacons_received, chain_state |-> chain_state,
     storage |-> storage, sync_target |-> sync_target, candidates |-> candidates,
     seen_candidates |-> seen_candidates, best_candidate |-> best_candidate,
     sync_waiting_for_add_blocks_since |-> sync_waiting_for_add_blocks_since,
     panicked |-> panicked,
     transactions_pool |-> transactions_pool, mining_enabled |-> mining_enabled,
     effects |-> << >>,
     requested |-> FALSE, consolidated |-> << >>, unregister |-> << >>, split |-> "none",
     superblock |-> "none", vote |-> "none", consensus |-> None]

Commit(act) ==
    /\ sm_state' = act.sm_state
    /\ current_epoch' = act.current_epoch
    /\ peers_beacons_received' = act.peers_beacons_received
    /\ chain_state' = act.chain_state
    /\ storage' = act.storage
    /\ sync_target' = act.sync_target
    /\ candidates' = act.candidates
    /\ seen_candidates' = act.seen_candidates
    /\ best_candidate' = act.best_candidate
    /\ sync_waiting_for_add_blocks_since' = act.sync_waiting_for_add_blocks_since
    /\ panicked' = act.panicked
    /\ transactions_pool' = act.transactions_pool
    /\ mining_enabled' = act.mining_enabled

\* what the last handler was given and what it did
ObservedTick(act, gap) ==
    [msg |-> "EpochNotification", pre_state |-> sm_state, gap |-> gap,
     consolidated |-> Len(act.consolidated)]

ObservedBeacons(act) ==
    [msg |-> "PeersBeacons", pre_state |-> sm_state,
     our_beacon |-> chain_state.highest_block_checkpoint,
     consensus |-> IF IsSome(act.consensus) THEN Some(act.consensus.val.beacon) ELSE None,
     requested |-> act.requested]

\* batch: the blocks of the message; processed: the blocks it consolidated
ObservedBlocks(act, blocks) ==
    [msg |-> "AddBlocks", pre_state |-> sm_state, split |-> act.split,
     batch |-> Len(blocks), processed |-> Len(act.consolidated),
     superblock |-> act.superblock, vote |-> act.vote, requested |-> act.requested]

ObservedCandidates ==
    [msg |-> "AddCandidates", pre_state |-> sm_state]

Min(a, b) == IF a < b THEN a ELSE b

Init ==
    /\ sm_state = WaitingConsensus
    /\ current_epoch = Some(0)
    /\ peers_beacons_received = FALSE
    /\ chain_state \in {NewChainState, ChainState(BlockBeacon(GenesisBlock))}
    /\ storage = Some(chain_state)
    /\ sync_target = None
    /\ candidates = {}
    /\ seen_candidates = {}
    /\ best_candidate = None
    /\ sync_waiting_for_add_blocks_since = None
    /\ panicked = FALSE
    /\ transactions_pool = EmptyPool
    /\ mining_enabled = TRUE
    /\ core = None
    /\ epoch_manager = None
    /\ controller = None
    /\ app = None
    /\ last = [msg |-> "none"]
    /\ ticks = [at |-> None, since |-> 0]
    /\ arb_in = None
    /\ arb_out = None

\* the epoch manager notifies an epoch later than the last one
EpochNotificationResult(checkpoint) ==
    LET act == EpochNotificationHandler(Self, checkpoint)
    IN  [act |-> act, obs |-> ObservedTick(act, IsGap(current_epoch, checkpoint))]

EpochNotificationResults ==
    {EpochNotificationResult(checkpoint) :
        checkpoint \in {c \in 0..MaxEpoch : IsSome(current_epoch) => c > current_epoch.val}}

\* the sessions manager delivers the beacons of the outbound peers; read_ok is
\* the outcome of reading storage, valid the verdict on a consensus candidate,
\* persist whether its consolidation writes the chain state snapshot (each is
\* drawn only where the handler can come to ask for it)
PeersBeaconsResult(pb, read_ok, valid, persist) ==
    LET act == PeersBeaconsHandler(Self, pb, Some(OutboundLimit), read_ok, valid, persist)
    IN  [act |-> act, obs |-> ObservedBeacons(act)]

\* the pb lists that carry a consensus
PbWithConsensus ==
    {pb \in PbSet : IsSome(superblock_consensus(pb, Some(OutboundLimit), ConsensusC))}

\* what the handler can do with one pb list
PeersBeaconsResultsFor(pb) ==
    LET deciding == /\ sm_state \in {WaitingConsensus, Synchronizing}
                    /\ IsSome(superblock_consensus(pb, Some(OutboundLimit), ConsensusC))
        reviewing == deciding /\ sm_state = WaitingConsensus /\ candidates # {}
    IN  {PeersBeaconsResult(pb, read_ok, valid, persist) :
            read_ok \in IF deciding THEN BOOLEAN ELSE {TRUE},
            valid \in IF reviewing THEN BOOLEAN ELSE {TRUE},
            persist \in IF reviewing THEN BOOLEAN ELSE {FALSE}}

PeersBeaconsResults == UNION {PeersBeaconsResultsFor(pb) : pb \in PbSet}

\* a peer answers with a batch of blocks; budget is how many of them validate,
\* sb and vote_ok the outcome of the superblock steps, read_ok of reading
\* storage, persist whether consolidating a block writes the chain state
\* snapshot (each is drawn only where the handler can come to ask for it)
AddBlocksResult(blocks, budget, sb, vote_ok, read_ok, persist) ==
    LET act == AddBlocksHandler(Self, blocks, budget, sb, vote_ok, read_ok, persist)
    IN  [act |-> act, obs |-> ObservedBlocks(act, blocks)]

\* what the handler can do with one batch
AddBlocksResultsFor(blocks) ==
    LET synchronizing == sm_state = Synchronizing /\ IsSome(sync_target)
        splitting == synchronizing /\ blocks # << >>
    IN  UNION {
            {AddBlocksResult(blocks, budget, sb, vote_ok, read_ok, persist) :
                persist \in IF splitting \/ (sm_state = WaitingConsensus /\ Len(blocks) = 1)
                            THEN BOOLEAN ELSE {FALSE},
                budget \in IF splitting THEN 0..(Len(blocks) - 1)
                           ELSE IF sm_state = WaitingConsensus /\ Len(blocks) = 1
                           THEN {0, 1} ELSE {0},
                vote_ok \in IF splitting /\ sb \in {"not_needed", "consolidated"}
                            THEN BOOLEAN ELSE {TRUE},
                read_ok \in IF synchronizing THEN BOOLEAN ELSE {TRUE}} :
            sb \in IF splitting THEN SuperblockOutcomes ELSE {"not_needed"}}

AddBlocksResults == UNION {AddBlocksResultsFor(blocks) : blocks \in BatchSet}

\* a peer (or the miner) proposes a block candidate; accept is the verdict on it
AddCandidatesResults ==
    {[act |-> AddCandidatesHandler(Self, block, accept), obs |-> ObservedCandidates] :
        block \in CandidateSet, accept \in BOOLEAN}

EpochNotification ==
    /\ ~panicked
    /\ \E r \in EpochNotificationResults : Commit(r.act) /\ last' = r.obs
    /\ UNCHANGED << ticks, arb_vars, core, epoch_manager, controller, app >>

PeersBeacons ==
    /\ ~panicked
    /\ \E r \in PeersBeaconsResults : Commit(r.act) /\ last' = r.obs
    /\ UNCHANGED << ticks, arb_vars, core, epoch_manager, controller, app >>

AddBlocks ==
    /\ ~panicked
    /\ \E r \in AddBlocksResults : Commit(r.act) /\ last' = r.obs
    /\ UNCHANGED << ticks, arb_vars, core, epoch_manager, controller, app >>

AddCandidates ==
    /\ ~panicked
    /\ \E r \in AddCandidatesResults : Commit(r.act) /\ last' = r.obs
    /\ UNCHANGED << ticks, arb_vars, core, epoch_manager, controller, app >>

Next == EpochNotification \/ PeersBeacons \/ AddBlocks \/ AddCandidates

Spec == Init /\ [][Next]_vars

----------------------------------------------------------------------------
(* The same handlers, observed from tick to tick: ticks.at is the state the   *)
(* machine was in when the last epoch notification arrived, ticks.since the   *)
(* number of PeersBeacons messages handled after it (2 standing for more).    *)

TickedEpochNotification ==
    /\ ~panicked
    /\ \E act \in {r.act : r \in EpochNotificationResults} : Commit(act)
    /\ ticks' = [at |-> Some(sm_state), since |-> 0]
    /\ last' = [msg |-> "EpochNotification", pre_state |-> sm_state, at |-> ticks.at,
                since |-> ticks.since]
    /\ UNCHANGED << arb_vars, core, epoch_manager, controller, app >>

TickedPeersBeacons ==
    /\ ~panicked
    /\ \E act \in {r.act : r \in PeersBeaconsResults} : Commit(act)
    /\ ticks' = [ticks EXCEPT !.since = Min(ticks.since + 1, 2)]
    /\ last' = [msg |-> "PeersBeacons"]
    /\ UNCHANGED << arb_vars, core, epoch_manager, controller, app >>

TickedAddBlocks ==
    /\ ~panicked
    /\ \E act \in {r.act : r \in AddBlocksResults} : Commit(act)
    /\ last' = [msg |-> "AddBlocks"]
    /\ UNCHANGED << ticks, arb_vars, core, epoch_manager, controller, app >>

TickedAddCandidates ==
    /\ ~panicked
    /\ \E act \in {r.act : r \in AddCandidatesResults} : Commit(act)
    /\ last' = [msg |-> "AddCandidates"]
    /\ UNCHANGED << ticks, arb_vars, core, epoch_manager, controller, app >>

NextTicks ==
    TickedEpochNotification \/ TickedPeersBeacons \/ TickedAddBlocks \/ TickedAddCandidates

SpecTicks == Init /\ [][NextTicks]_vars

----------------------------------------------------------------------------
(* The arbiter on its own: every pb list of at most MaxPeers peers, every     *)
(* outbound limit that admits it, and three consensus thresholds.             *)

\* the block beacons and superblock beacons peers report to the arbiter
ArbBlockBeacons == {CheckpointBeacon(1, h) : h \in {2, 3, 4}}

ArbSuperBeacons == {CheckpointBeacon(0, h) : h \in {5, 6}}

ArbLastBeacons == {LastBeacon(b, sb) : b \in ArbBlockBeacons, sb \in ArbSuperBeacons}

\* consensus thresholds, in percent
ArbThresholds == {50, 60, 100}

ArbInputs ==
    {[pb |-> pb, outbound_limit |-> limit, threshold |-> t] :
        pb \in SeqsUpTo({None} \cup {Some(lb) : lb \in ArbLastBeacons}, MaxPeers),
        limit \in {None} \cup {Some(n) : n \in 1..MaxPeers},
        t \in ArbThresholds}

ArbInit ==
    /\ arb_in \in {Some(i) : i \in {x \in ArbInputs :
                      IsSome(x.outbound_limit) => Len(x.pb) <= x.outbound_limit.val}}
    /\ arb_out = None
    /\ sm_state = WaitingConsensus
    /\ current_epoch = None
    /\ peers_beacons_received = FALSE
    /\ chain_state = NewChainState
    /\ storage = Some(chain_state)
    /\ sync_target = None
    /\ candidates = {}
    /\ seen_candidates = {}
    /\ best_candidate = None
    /\ sync_waiting_for_add_blocks_since = None
    /\ panicked = FALSE
    /\ transactions_pool = EmptyPool
    /\ mining_enabled = TRUE
    /\ core = None
    /\ epoch_manager = None
    /\ controller = None
    /\ app = None
    /\ last = [msg |-> "none"]
    /\ ticks = [at |-> None, since |-> 0]

\* run superblock_consensus on the input
ArbEvaluate ==
    /\ IsNone(arb_out)
    /\ arb_out' = Some(superblock_consensus(arb_in.val.pb, arb_in.val.outbound_limit,
                                            arb_in.val.threshold))
    /\ UNCHANGED << arb_in, chain_vars >>

ArbNext == ArbEvaluate

SpecArbiter == ArbInit /\ [][ArbNext]_vars

----------------------------------------------------------------------------
(* Properties of the PeersBeacons arbiter, checked under SpecArbiter *)

\* the outbound peers the consensus is computed over
ArbPeers == IF IsSome(arb_in.val.outbound_limit)
            THEN arb_in.val.outbound_limit.val
            ELSE Len(arb_in.val.pb)

\* the peers that reported a beacon
ArbReporting == {i \in 1..Len(arb_in.val.pb) : IsSome(arb_in.val.pb[i])}

\* the superblock beacons that were reported
ArbReported == {arb_in.val.pb[i].val.highest_superblock_checkpoint : i \in ArbReporting}

\* the peers that reported superblock beacon sb
ArbVoters(sb) ==
    {i \in ArbReporting : arb_in.val.pb[i].val.highest_superblock_checkpoint = sb}

\* the entries that stand for "no beacon": silent peers and missing outbound peers
ArbNoBeacon == ArbPeers - Cardinality(ArbReporting)

\* ceil(n * threshold / 100)
ArbNeeded == (ArbPeers * arb_in.val.threshold + 99) \div 100

\* sb is reported at least as often as every other superblock beacon
ArbMostReported(sb) ==
    \A o \in ArbReported : Cardinality(ArbVoters(sb)) >= Cardinality(ArbVoters(o))

\* sb is reported more often than every other entry, "no beacon" included
ArbUniqueMode(sb) ==
    /\ \A o \in ArbReported \ {sb} : Cardinality(ArbVoters(sb)) > Cardinality(ArbVoters(o))
    /\ Cardinality(ArbVoters(sb)) > ArbNoBeacon

ArbHasConsensus == IsSome(arb_out) /\ IsSome(arb_out.val)

\* the peers that reported the consensus superblock beacon
ArbOnConsensus == ArbVoters(arb_out.val.val.beacon.highest_superblock_checkpoint)

\* the block beacons those peers reported
ArbBlocksOnConsensus ==
    {arb_in.val.pb[i].val.highest_block_checkpoint : i \in ArbOnConsensus}

\* the peers on the consensus superblock that reported block beacon b
ArbBlockVoters(b) ==
    {i \in ArbOnConsensus : arb_in.val.pb[i].val.highest_block_checkpoint = b}

\* the block beacons reported most often on the consensus superblock
ArbTopBlocks ==
    {b \in ArbBlocksOnConsensus :
        \A o \in ArbBlocksOnConsensus :
            Cardinality(ArbBlockVoters(b)) >= Cardinality(ArbBlockVoters(o))}

\* the first peer of pb that reported the consensus superblock
ArbFirstOnConsensus == CHOOSE i \in ArbOnConsensus : \A j \in ArbOnConsensus : i <= j

\* C8 as stated: with an outbound limit n, there is a consensus exactly when the
\* most reported superblock beacon is reported by at least ceil(n*threshold/100)
\* peers.
C8_ConsensusIffMostReportedReachesThreshold ==
    (IsSome(arb_out) /\ IsSome(arb_in.val.outbound_limit)) =>
        (IsSome(arb_out.val) <=>
            \E sb \in ArbReported :
                ArbMostReported(sb) /\ Cardinality(ArbVoters(sb)) >= ArbNeeded)

\* C8 amended: there is a consensus exactly when one superblock beacon is
\* reported more often than every other entry, the "no beacon" entries of silent
\* and missing peers included, and by at least ceil(n*threshold/100) peers, n
\* being the outbound limit or the number of beacons when there is no limit; the
\* consensus is that beacon.
C8_ConsensusIffUniqueModeReachesThreshold ==
    IsSome(arb_out) =>
        /\ IsSome(arb_out.val) <=>
               \E sb \in ArbReported :
                   ArbUniqueMode(sb) /\ Cardinality(ArbVoters(sb)) >= ArbNeeded
        /\ IsSome(arb_out.val) =>
               ArbUniqueMode(arb_out.val.val.beacon.highest_superblock_checkpoint)

\* outbound limit 4, threshold 60: three agreeing peers give a consensus
C8_ThreeOfFourAgree ==
    /\ ArbHasConsensus
    /\ arb_in.val.outbound_limit = Some(4)
    /\ arb_in.val.threshold = 60
    /\ Len(arb_in.val.pb) = 3
    /\ Cardinality(ArbOnConsensus) = 3

\* C9 as stated: the consensus is strong exactly when more than half of the peers
\* on the consensus superblock reported the same block beacon, which is then the
\* one returned.
C9_StrongIffMajority ==
    ArbHasConsensus =>
        /\ arb_out.val.val.strong <=>
               \E b \in ArbBlocksOnConsensus :
                   2 * Cardinality(ArbBlockVoters(b)) > Cardinality(ArbOnConsensus)
        /\ arb_out.val.val.strong =>
               2 * Cardinality(ArbBlockVoters(arb_out.val.val.beacon.highest_block_checkpoint))
                   > Cardinality(ArbOnConsensus)

\* C9 amended: the consensus is strong exactly when one block beacon is reported
\* more often than every other one by the peers on the consensus superblock and
\* by at least threshold percent of them; the block beacon returned is then
\* that one.
C9_StrongIffModeReachesThreshold ==
    ArbHasConsensus =>
        /\ arb_out.val.val.strong <=>
               \E b \in ArbBlocksOnConsensus :
                   /\ ArbTopBlocks = {b}
                   /\ 100 * Cardinality(ArbBlockVoters(b))
                          >= Cardinality(ArbOnConsensus) * arb_in.val.threshold
        /\ arb_out.val.val.strong =>
               ArbTopBlocks = {arb_out.val.val.beacon.highest_block_checkpoint}

\* a strong consensus that is not unanimous
C9_StrongNotUnanimous ==
    /\ ArbHasConsensus
    /\ arb_out.val.val.strong
    /\ Cardinality(ArbBlocksOnConsensus) > 1

\* C10 as stated: without strong block consensus the block beacon returned is
\* one of the most reported on the consensus superblock, and the one of them with
\* the smallest hash.
C10_WeakPicksSmallestHash ==
    (ArbHasConsensus /\ ~arb_out.val.val.strong) =>
        /\ arb_out.val.val.beacon.highest_block_checkpoint \in ArbTopBlocks
        /\ \A b \in ArbTopBlocks :
               arb_out.val.val.beacon.highest_block_checkpoint.hash_prev_block
                   <= b.hash_prev_block

\* C10 amended: without strong block consensus the block beacon returned was
\* reported by a peer on the consensus superblock: it is the most reported one
\* when there is a single one, and otherwise the one of the first peer of pb on
\* the consensus superblock, so it depends on the order of the peers.
C10_WeakPicksModeOrFirst ==
    (ArbHasConsensus /\ ~arb_out.val.val.strong) =>
        /\ arb_out.val.val.beacon.highest_block_checkpoint \in ArbBlocksOnConsensus
        /\ arb_out.val.val.beacon.highest_block_checkpoint =
               IF Cardinality(ArbTopBlocks) = 1
               THEN CHOOSE b \in ArbTopBlocks : TRUE
               ELSE arb_in.val.pb[ArbFirstOnConsensus].val.highest_block_checkpoint

\* a tie in which the first peer did not report the smallest hash
C10_TieFirstPeerWins ==
    /\ ArbHasConsensus
    /\ ~arb_out.val.val.strong
    /\ Cardinality(ArbTopBlocks) > 1
    /\ \E b \in ArbTopBlocks :
           b.hash_prev_block
               < arb_out.val.val.beacon.highest_block_checkpoint.hash_prev_block

----------------------------------------------------------------------------
(* Properties of the ChainManager state machine, checked under Spec *)

\* the node and its peers are at the same checkpoint on different blocks
Fork(ours, theirs) ==
    /\ ours.checkpoint = theirs.checkpoint
    /\ ours.hash_prev_block # theirs.hash_prev_block

\* the last message was a PeersBeacons with consensus, handled in one of states
BeaconsWithConsensus(states) ==
    /\ last.msg = "PeersBeacons"
    /\ last.pre_state \in states
    /\ IsSome(last.consensus)

\* ... and the consensus forks from the chain of the node
ForkSeen(states) ==
    /\ BeaconsWithConsensus(states)
    /\ Fork(last.our_beacon, last.consensus.val.highest_block_checkpoint)

\* the sync target that stands for the consensus of the last PeersBeacons
ConsensusTarget ==
    Some(SyncTarget(last.consensus.val.highest_block_checkpoint,
                    last.consensus.val.highest_superblock_checkpoint))

\* the last message was an AddBlocks handled in Synchronizing that reached the
\* sync target, and every block after the repeated first one was consolidated
TargetMet ==
    /\ last.msg = "AddBlocks"
    /\ last.pre_state = Synchronizing
    /\ last.split \in {"SyncWithoutCandidate", "SyncWithCandidate"}
    /\ last.batch >= 1
    /\ last.processed = last.batch - 1

C3_GapFallsBackToWaitingConsensus ==
    (last.msg = "EpochNotification" /\ last.gap) =>
        (sm_state = WaitingConsensus /\ last.consolidated = 0)

\* a Synced node with a best candidate pending has missed a tick
C3_GapWhileSynced ==
    /\ last.msg = "EpochNotification"
    /\ last.gap
    /\ last.pre_state = Synced
    /\ sm_state = WaitingConsensus
    /\ IsSome(best_candidate)

\* C4: after an epoch notification that does not follow the previous one,
\* best_candidate, candidates and seen_candidates are empty.
C4_GapDropsCandidates ==
    (last.msg = "EpochNotification" /\ last.gap) =>
        (best_candidate = None /\ candidates = {} /\ seen_candidates = {})

C6_TargetMetGoesToAlmostSynced == TargetMet => sm_state = AlmostSynced

\* C6 amended: a batch that reaches the sync target and is processed in full
\* moves the machine from Synchronizing to WaitingConsensus, provided the
\* superblock of the target is consolidated or not needed; an AddBlocks message
\* leaves the state as it is or moves it to WaitingConsensus, never to
\* AlmostSynced.
C6_TargetMetGoesToWaitingConsensus ==
    /\ (TargetMet /\ last.superblock \in {"not_needed", "consolidated"}) =>
           sm_state = WaitingConsensus
    /\ last.msg = "AddBlocks" =>
           (sm_state = last.pre_state \/ sm_state = WaitingConsensus)

\* a batch with a block to consolidate has reached the sync target
C6_TargetMetWithBlocks ==
    /\ TargetMet
    /\ last.processed >= 1
    /\ last.superblock \in {"not_needed", "consolidated"}
    /\ sm_state = WaitingConsensus

----------------------------------------------------------------------------
(* Properties from tick to tick, checked under SpecTicks *)

\* C1 as stated: when an epoch notification is handled in Synced, the previous
\* one was handled in Synced or AlmostSynced.
C1_SyncedTickFollowsSyncedOrAlmostSynced ==
    (/\ last.msg = "EpochNotification"
     /\ last.pre_state = Synced
     /\ IsSome(last.at))
    => last.at.val \in {Synced, AlmostSynced}

\* C1 amended: when an epoch notification is handled in Synced, the previous
\* one was handled in Synced or AlmostSynced, or at least two PeersBeacons were
\* handled between the two; Synced is entered only from AlmostSynced, by a
\* PeersBeacons.
C1_SyncedTickFollowsTwoBeacons ==
    [][/\ (/\ last'.msg = "EpochNotification"
           /\ sm_state = Synced
           /\ IsSome(ticks.at))
          => (ticks.at.val \in {Synced, AlmostSynced} \/ ticks.since >= 2)
       /\ (sm_state' = Synced /\ sm_state # Synced)
          => (sm_state = AlmostSynced /\ last'.msg = "PeersBeacons")]_vars

\* a tick handled in Synced one tick after a tick handled in WaitingConsensus
C1_SyncedWithinOneEpoch ==
    /\ last.msg = "EpochNotification"
    /\ last.pre_state = Synced
    /\ last.at = Some(WaitingConsensus)
    /\ last.since = 2

----------------------------------------------------------------------------
(* The arbiter evaluated twice on the same PeersBeacons value *)

\* run superblock_consensus a second time on the same input
ArbEvaluateAgain ==
    /\ IsSome(arb_out)
    /\ last.msg = "none"
    /\ last' = [msg |-> "superblock_consensus",
                out |-> superblock_consensus(arb_in.val.pb, arb_in.val.outbound_limit,
                                             arb_in.val.threshold)]
    /\ UNCHANGED << arb_vars, sm_state, current_epoch, peers_beacons_received,
                    chain_state, storage, sync_target, candidates, seen_candidates,
                    best_candidate, sync_waiting_for_add_blocks_since, panicked,
                    transactions_pool, mining_enabled, core,
                    epoch_manager, ticks, controller, app >>

ArbTwiceNext == ArbEvaluate \/ ArbEvaluateAgain

SpecArbiterTwice == ArbInit /\ [][ArbTwiceNext]_vars

----------------------------------------------------------------------------
(* The PeersBeacons handler on its own: the node in any state of the machine, *)
(* its chain on block (1, 2), and every pb list of at most MaxPeers peers     *)
(* with every outbound limit that admits it.  A peer is named by its place    *)
(* in pb.                                                                     *)

UnregisterInputs ==
    {x \in ArbInputs : /\ x.threshold = ConsensusC
                       /\ IsSome(x.outbound_limit) => Len(x.pb) <= x.outbound_limit.val}

UnregisterInit ==
    /\ arb_in \in {Some(i) : i \in UnregisterInputs}
    /\ arb_out = None
    /\ sm_state \in StateMachine
    /\ current_epoch = Some(1)
    /\ peers_beacons_received = FALSE
    /\ chain_state = ChainState(CheckpointBeacon(1, 2))
    /\ storage = Some(chain_state)
    /\ sync_target = None
    /\ candidates = {}
    /\ seen_candidates = {}
    /\ best_candidate = None
    /\ sync_waiting_for_add_blocks_since = None
    /\ panicked = FALSE
    /\ transactions_pool = EmptyPool
    /\ mining_enabled = TRUE
    /\ core = None
    /\ epoch_manager = None
    /\ controller = None
    /\ app = None
    /\ last = [msg |-> "none"]
    /\ ticks = [at |-> None, since |-> 0]

\* what the handler was given and the peers it returned
UnregisterResult(read_ok) ==
    LET act == PeersBeaconsHandler(Self, arb_in.val.pb, arb_in.val.outbound_limit,
                                   read_ok, TRUE, FALSE)
    IN  [act |-> act,
         obs |-> [msg |-> "PeersBeacons", pre_state |-> sm_state,
                  our_beacon |-> chain_state.highest_block_checkpoint,
                  consensus |-> act.consensus, unregister |-> act.unregister]]

UnregisterResults == {UnregisterResult(read_ok) : read_ok \in BOOLEAN}

\* the handler takes the message
UnregisterPeersBeacons ==
    /\ last.msg = "none"
    /\ \E r \in UnregisterResults : Commit(r.act) /\ last' = r.obs
    /\ UNCHANGED << ticks, arb_vars, core, epoch_manager, controller, app >>

UnregisterNext == UnregisterPeersBeacons

SpecUnregister == UnregisterInit /\ [][UnregisterNext]_vars

\* list names exactly the peers of the set, in the order of pb
ListsExactly(list, peers) ==
    /\ Len(list) = Cardinality(peers)
    /\ \A i \in 1..Len(list) : list[i] \in peers
    /\ \A i, j \in 1..Len(list) : i < j => list[i] < list[j]

\* the message found no consensus and fewer peers than a consensus needs
BelowQuorum ==
    /\ last.msg = "PeersBeacons"
    /\ IsNone(last.consensus)
    /\ Len(arb_in.val.pb) < (IF IsSome(arb_in.val.outbound_limit)
                             THEN (arb_in.val.outbound_limit.val * ConsensusC + 99) \div 100
                             ELSE 1)

\* the peers of the message that sent no beacon
SilentPeers == {i \in 1..Len(arb_in.val.pb) : arb_in.val.pb[i] = None}

StrongConsensus ==
    /\ last.msg = "PeersBeacons"
    /\ IsSome(last.consensus)
    /\ last.consensus.val.strong

\* the peers that sent no beacon or a block beacon other than the consensus
OffConsensusPeers ==
    {i \in 1..Len(arb_in.val.pb) :
        \/ arb_in.val.pb[i] = None
        \/ arb_in.val.pb[i].val.highest_block_checkpoint
               # last.consensus.val.beacon.highest_block_checkpoint}

----------------------------------------------------------------------------
(* decide_peers_to_unregister and peers_with_no_beacon on their own: every pb *)
(* list of at most MaxPeers peers against every block beacon.                 *)

PeersInputs ==
    {[pb |-> pb, beacon |-> beacon] :
        pb \in SeqsUpTo({None} \cup {Some(lb) : lb \in ArbLastBeacons}, MaxPeers),
        beacon \in ArbBlockBeacons}

PeersInit ==
    /\ arb_in \in {Some(i) : i \in PeersInputs}
    /\ arb_out = None
    /\ sm_state = WaitingConsensus
    /\ current_epoch = None
    /\ peers_beacons_received = FALSE
    /\ chain_state = NewChainState
    /\ storage = Some(chain_state)
    /\ sync_target = None
    /\ candidates = {}
    /\ seen_candidates = {}
    /\ best_candidate = None
    /\ sync_waiting_for_add_blocks_since = None
    /\ panicked = FALSE
    /\ transactions_pool = EmptyPool
    /\ mining_enabled = TRUE
    /\ core = None
    /\ epoch_manager = None
    /\ controller = None
    /\ app = None
    /\ last = [msg |-> "none"]
    /\ ticks = [at |-> None, since |-> 0]

\* call both functions on the pb list
PeersEvaluate ==
    /\ IsNone(arb_out)
    /\ arb_out' = Some([differ |-> decide_peers_to_unregister(arb_in.val.pb, arb_in.val.beacon),
                        silent |-> peers_with_no_beacon(arb_in.val.pb)])
    /\ UNCHANGED << arb_in, chain_vars >>

PeersNext == PeersEvaluate

SpecPeers == PeersInit /\ [][PeersNext]_vars

\* a is b with some of its entries left out
IsSubList(a, b) ==
    \E f \in [1..Len(a) -> 1..Len(b)] :
        /\ \A i \in 1..Len(a) : b[f[i]] = a[i]
        /\ \A i, j \in 1..Len(a) : i < j => f[i] < f[j]

\* the peers that sent no beacon or a block beacon other than the one asked for
DifferingPeers ==
    {i \in 1..Len(arb_in.val.pb) :
        \/ arb_in.val.pb[i] = None
        \/ arb_in.val.pb[i].val.highest_block_checkpoint # arb_in.val.beacon}

\* C14: decide_peers_to_unregister(beacon) returns, in the order of pb, exactly
\* the peers that sent no beacon or whose block beacon differs from beacon;
\* peers_with_no_beacon() returns exactly the peers without a beacon, a sub-list
\* of the former.
C14_UnregisterListsAreExact ==
    IsSome(arb_out) =>
        /\ ListsExactly(arb_out.val.differ, DifferingPeers)
        /\ ListsExactly(arb_out.val.silent, SilentPeers)
        /\ IsSubList(arb_out.val.silent, arb_out.val.differ)

\* one peer on another block, one on the beacon asked for, one without a beacon
C14_DifferingAgreeingSilent ==
    /\ IsSome(arb_out)
    /\ Len(arb_in.val.pb) = 3
    /\ arb_out.val.differ = <<1, 3>>
    /\ arb_out.val.silent = <<3>>
    /\ arb_in.val.pb[1] # None

----------------------------------------------------------------------------
(* split_blocks_batch_at_target on its own: every batch of at most            *)
(* MaxSplitLen blocks with epochs up to MaxSplitEpoch, in any order, every    *)
(* current epoch, target block checkpoint and target superblock index up to   *)
(* MaxSplitEpoch, and two superblock periods.                                 *)

\* the longest batch
MaxSplitLen == 3

\* the latest epoch of a block, of the node and of the target
MaxSplitEpoch == 4

\* superblock periods, in epochs
SplitPeriods == {1, 2}

SplitInputs ==
    {[blocks |-> blocks, epoch |-> epoch,
      target |-> SyncTarget(CheckpointBeacon(block_checkpoint, 0),
                            CheckpointBeacon(superblock_index, 0)),
      superblock_period |-> superblock_period] :
        blocks \in SeqsUpTo({[checkpoint |-> e] : e \in 0..MaxSplitEpoch}, MaxSplitLen),
        epoch \in 0..MaxSplitEpoch,
        block_checkpoint \in 0..MaxSplitEpoch,
        superblock_index \in 0..MaxSplitEpoch,
        superblock_period \in SplitPeriods}

SplitInit ==
    /\ arb_in \in {Some(i) : i \in SplitInputs}
    /\ arb_out = None
    /\ sm_state = Synchronizing
    /\ current_epoch = None
    /\ peers_beacons_received = FALSE
    /\ chain_state = NewChainState
    /\ storage = Some(chain_state)
    /\ sync_target = None
    /\ candidates = {}
    /\ seen_candidates = {}
    /\ best_candidate = None
    /\ sync_waiting_for_add_blocks_since = None
    /\ panicked = FALSE
    /\ transactions_pool = EmptyPool
    /\ mining_enabled = TRUE
    /\ core = None
    /\ epoch_manager = None
    /\ controller = None
    /\ app = None
    /\ last = [msg |-> "none"]
    /\ ticks = [at |-> None, since |-> 0]

\* split the batch
SplitEvaluate ==
    /\ IsNone(arb_out)
    /\ arb_out' = Some(split_blocks_batch_at_target(
                           arb_in.val.blocks, arb_in.val.epoch, arb_in.val.target,
                           arb_in.val.superblock_period))
    /\ UNCHANGED << arb_in, chain_vars >>

SplitNext == SplitEvaluate

SpecSplit == SplitInit /\ [][SplitNext]_vars

\* the target superblock index T, the current superblock index C, the period
SplitT == arb_in.val.target.superblock.checkpoint

SplitC == arb_in.val.epoch \div arb_in.val.superblock_period

SplitPeriod == arb_in.val.superblock_period

\* the epochs of the batch
SplitEpochs == [i \in 1..Len(arb_in.val.blocks) |-> arb_in.val.blocks[i].checkpoint]

\* the blocks of the batch that a later superblock reverted: their epoch is in
\* [T * period, (C - ((C - T) mod 2)) * period)
SplitReverted ==
    IF SplitC < SplitT THEN {}
    ELSE {i \in 1..Len(SplitEpochs) :
             /\ SplitEpochs[i] >= SplitT * SplitPeriod
             /\ SplitEpochs[i] < (SplitC - ((SplitC - SplitT) % 2)) * SplitPeriod}

\* the epoch of the last block of the batch, 0 for an empty batch
SplitLastEpoch == IF SplitEpochs = << >> THEN 0 ELSE SplitEpochs[Len(SplitEpochs)]

\* the last block is below the last epoch before the target superblock and
\* below the target block
SplitBelowTarget ==
    /\ SplitLastEpoch < (IF SplitT * SplitPeriod >= 1 THEN SplitT * SplitPeriod - 1 ELSE 0)
    /\ SplitLastEpoch < arb_in.val.target.block.checkpoint

\* C15: for a batch that reaches the target and holds no reverted block, the
\* splitter returns SyncWithoutCandidate when C - T is even and
\* SyncWithCandidate when it is odd (C >= T, as the function asserts).
C15_ShapeFollowsSuperblockParity ==
    (IsSome(arb_out) /\ SplitC >= SplitT /\ ~SplitBelowTarget /\ SplitReverted = {}) =>
        arb_out.val.tag = (IF (SplitC - SplitT) % 2 = 0
                           THEN "SyncWithoutCandidate" ELSE "SyncWithCandidate")

\* an odd distance to a target superblock other than 0: blocks to consolidate,
\* a candidate superblock and blocks of the current one
C15_OddDistanceWithCandidate ==
    /\ IsSome(arb_out)
    /\ SplitT = 1
    /\ SplitC = 2
    /\ SplitReverted = {}
    /\ arb_out.val.tag = "SyncWithCandidate"
    /\ Len(arb_out.val.consolidate) = 1
    /\ Len(arb_out.val.candidate) = 1
    /\ Len(arb_out.val.remaining) = 1

\* C16: the splitter returns TargetNotReached, carrying the batch unchanged,
\* exactly when it detects no reverted block and the epoch of the last block
\* (0 for an empty batch) is below both T * period - 1, saturating at 0, and the
\* checkpoint of the target block.
C16_TargetNotReachedIffBelowTarget ==
    IsSome(arb_out) =>
        /\ arb_out.val.tag = "TargetNotReached" <=>
               /\ SplitC >= SplitT
               /\ ~(SplitT # 0 /\ SplitReverted # {})
               /\ SplitBelowTarget
        /\ arb_out.val.tag = "TargetNotReached" =>
               arb_out.val = [tag |-> "TargetNotReached", blocks |-> arb_in.val.blocks]

\* three blocks that end before the target superblock and the target block
C16_ThreeBlocksBelowTarget ==
    /\ IsSome(arb_out)
    /\ arb_out.val.tag = "TargetNotReached"
    /\ SplitEpochs = <<0, 1, 2>>
    /\ SplitT = 2
    /\ SplitPeriod = 2
    /\ arb_in.val.target.block.checkpoint = 3
    /\ arb_in.val.epoch = 4

\* C17: when T is not 0 and some block has its epoch in
\* [T * period, (C - ((C - T) mod 2)) * period), the splitter fails with
\* WrongBlocksForSuperblock carrying the epoch of the first such block, T and
\* C, and no batch; when T is 0 it never fails with that error.
C17_RevertedBlockIsAnError ==
    IsSome(arb_out) =>
        /\ (SplitT # 0 /\ SplitReverted # {}) =>
               \E i \in SplitReverted :
                   /\ \A j \in SplitReverted : i <= j
                   /\ arb_out.val = [tag |-> "WrongBlocksForSuperblock",
                                     wrong_index |-> SplitEpochs[i],
                                     consolidated_superblock_index |-> SplitT,
                                     current_superblock_index |-> SplitC]
        /\ SplitT = 0 => arb_out.val.tag # "WrongBlocksForSuperblock"

\* two reverted blocks, the later one first in the batch: its epoch is reported
C17_FirstRevertedBlockReported ==
    /\ IsSome(arb_out)
    /\ SplitT = 1
    /\ SplitPeriod = 1
    /\ SplitEpochs = <<0, 2, 1>>
    /\ arb_out.val.tag = "WrongBlocksForSuperblock"
    /\ arb_out.val.wrong_index = 2
    /\ arb_out.val.current_superblock_index = 3

\* C18 as stated: for an empty batch and T other than 0 the splitter returns
\* TargetNotReached([]), for every current epoch the function admits and every
\* checkpoint of the target block.
C18_EmptyBatchNeverReachesTarget ==
    (IsSome(arb_out) /\ arb_in.val.blocks = << >> /\ SplitT # 0 /\ SplitC >= SplitT) =>
        arb_out.val = [tag |-> "TargetNotReached", blocks |-> << >>]

\* C18: for an empty batch and T other than 0 the splitter returns
\* TargetNotReached([]) when the checkpoint of the target block is above 0 and
\* T * period above 1; otherwise it returns SyncWithoutCandidate([], []) when
\* C - T is even and SyncWithCandidate([], [], []) when it is odd.
C18_EmptyBatchReachesTargetAtCheckpointZero ==
    (IsSome(arb_out) /\ arb_in.val.blocks = << >> /\ SplitT # 0 /\ SplitC >= SplitT) =>
        arb_out.val =
            IF arb_in.val.target.block.checkpoint > 0 /\ SplitT * SplitPeriod > 1
            THEN [tag |-> "TargetNotReached", blocks |-> << >>]
            ELSE IF (SplitC - SplitT) % 2 = 0
            THEN [tag |-> "SyncWithoutCandidate", consolidate |-> << >>,
                  remaining |-> << >>]
            ELSE [tag |-> "SyncWithCandidate", consolidate |-> << >>,
                  candidate |-> << >>, remaining |-> << >>]

\* an empty batch, T = 1 and a target block of checkpoint 0: a candidate shape
C18_EmptyBatchWithCandidate ==
    /\ IsSome(arb_out)
    /\ arb_in.val.blocks = << >>
    /\ SplitT = 1
    /\ SplitPeriod = 2
    /\ arb_in.val.target.block.checkpoint = 0
    /\ arb_out.val.tag = "SyncWithCandidate"

\* the epochs of a list of blocks
EpochsOf(blocks) == {blocks[i].checkpoint : i \in 1..Len(blocks)}

\* the batch is sorted by epoch
SplitSorted == \A i, j \in 1..Len(SplitEpochs) : i < j => SplitEpochs[i] <= SplitEpochs[j]

\* C19: for a batch sorted by epoch, SyncWithoutCandidate(c, r) has the blocks
\* of c below T * period and those of r at or above it; SyncWithCandidate(c, k,
\* r) has c below T * period, k from T * period to below C * period, and r at
\* or above C * period.
C19_SortedBatchIsCutAtSuperblocks ==
    (IsSome(arb_out) /\ SplitSorted) =>
        /\ arb_out.val.tag = "SyncWithoutCandidate" =>
               /\ \A e \in EpochsOf(arb_out.val.consolidate) : e < SplitT * SplitPeriod
               /\ \A e \in EpochsOf(arb_out.val.remaining) : e >= SplitT * SplitPeriod
        /\ arb_out.val.tag = "SyncWithCandidate" =>
               /\ \A e \in EpochsOf(arb_out.val.consolidate) : e < SplitT * SplitPeriod
               /\ \A e \in EpochsOf(arb_out.val.candidate) :
                      e >= SplitT * SplitPeriod /\ e < SplitC * SplitPeriod
               /\ \A e \in EpochsOf(arb_out.val.remaining) : e >= SplitC * SplitPeriod

\* a sorted batch cut in three
C19_SortedBatchCutInThree ==
    /\ IsSome(arb_out)
    /\ SplitEpochs = <<1, 3, 4>>
    /\ SplitPeriod = 2
    /\ arb_out.val = [tag |-> "SyncWithCandidate",
                      consolidate |-> <<[checkpoint |-> 1]>>,
                      candidate |-> <<[checkpoint |-> 3]>>,
                      remaining |-> <<[checkpoint |-> 4]>>]

----------------------------------------------------------------------------
(* The node waiting for a blocks batch that never comes: epoch notifications  *)
(* up to MaxWaitEpoch and the beacons of its peers, no AddBlocks message.     *)

\* the last epoch notified
MaxWaitEpoch == 11

WaitingEpochNotification ==
    /\ ~panicked
    /\ \E r \in {EpochNotificationResult(checkpoint) :
                    checkpoint \in (current_epoch.val + 1)..MaxWaitEpoch} :
           Commit(r.act) /\ last' = r.obs
    /\ UNCHANGED << ticks, arb_vars, core, epoch_manager, controller, app >>

\* since: sync_waiting_for_add_blocks_since when the message arrived; at: the
\* current epoch; requested: whether the handler requested a blocks batch
WaitingPeersBeacons ==
    /\ ~panicked
    /\ \E act \in {r.act : r \in PeersBeaconsResults} :
           /\ Commit(act)
           /\ last' = [msg |-> "PeersBeacons", pre_state |-> sm_state,
                       since |-> sync_waiting_for_add_blocks_since,
                       at |-> current_epoch.val, requested |-> act.requested]
    /\ UNCHANGED << ticks, arb_vars, core, epoch_manager, controller, app >>

NextWaiting == WaitingEpochNotification \/ WaitingPeersBeacons

SpecWaiting == Init /\ [][NextWaiting]_vars

\* the handler took the beacons while Synchronizing and is Synchronizing after
\* them, having waited for the batch since an earlier request
StillWaiting ==
    /\ last.msg = "PeersBeacons"
    /\ last.pre_state = Synchronizing
    /\ sm_state = Synchronizing
    /\ IsSome(last.since)

\* C20 as stated: the PeersBeacons handler requests the batch again when it is
\* Synchronizing and more than 10 epochs have passed since the request
\* (current_epoch - sync_waiting_for_add_blocks_since > 10), and not before; in
\* any other state it issues no timeout re-request.
C20_RerequestAfterMoreThanTenEpochs ==
    (last.msg = "PeersBeacons" /\ last.pre_state # WaitingConsensus) =>
        (last.requested <=> (StillWaiting /\ last.at - last.since.val > 10))

\* C20: the PeersBeacons handler requests the batch again when it is
\* Synchronizing and at least 10 epochs have passed since the request
\* (current_epoch - sync_waiting_for_add_blocks_since >= 10), and not before;
\* in any other state it issues no timeout re-request (from WaitingConsensus
\* the only request is the one that starts the wait).
C20_RerequestAfterTenEpochs ==
    /\ (last.msg = "PeersBeacons" /\ last.pre_state # WaitingConsensus) =>
           (last.requested <=> (StillWaiting /\ last.at - last.since.val >= 10))
    /\ (last.msg = "PeersBeacons" /\ last.pre_state = WaitingConsensus /\ last.requested) =>
           /\ sm_state = Synchronizing
           /\ sync_waiting_for_add_blocks_since = Some(last.at)

\* the batch is requested again exactly 10 epochs after the request
C20_RerequestedAtTenEpochs ==
    /\ StillWaiting
    /\ last.requested
    /\ last.at - last.since.val = 10

----------------------------------------------------------------------------
(* The node with its transactions pool: epoch notifications, the beacons of   *)
(* the peers, block candidates and transactions, and for every epoch          *)
(* notification the calls its handler made, in order.                         *)

\* the transactions peers send: a commit transaction and another one
PoolTransactions == {[hash |-> 1, commit |-> TRUE], [hash |-> 2, commit |-> FALSE]}

\* ChainManager::add_transaction: the transaction is held in the pending set
\* while its signatures are verified; a verified commit transaction enters the
\* commits of the pool
add_transaction(act, transaction, verified) ==
    IF ~verified
    THEN [act EXCEPT !.transactions_pool.pending = @ \cup {transaction.hash}]
    ELSE IF transaction.commit
    THEN [act EXCEPT !.transactions_pool.co = @ \cup {transaction.hash}]
    ELSE act

AddTransactionHandler(act, transaction, verified) ==
    add_transaction(act, transaction, verified)

PoolInit ==
    /\ sm_state = WaitingConsensus
    /\ current_epoch = Some(0)
    /\ peers_beacons_received = FALSE
    /\ chain_state = ChainState(BlockBeacon(GenesisBlock))
    /\ storage = Some(chain_state)
    /\ sync_target = None
    /\ candidates = {}
    /\ seen_candidates = {}
    /\ best_candidate = None
    /\ sync_waiting_for_add_blocks_since = None
    /\ panicked = FALSE
    /\ transactions_pool = EmptyPool
    /\ mining_enabled \in BOOLEAN
    /\ core = None
    /\ epoch_manager = None
    /\ controller = None
    /\ app = None
    /\ last = [msg |-> "none"]
    /\ ticks = [at |-> None, since |-> 0]
    /\ arb_in = None
    /\ arb_out = None

\* effects: the calls of the handler in order; pre_state: the state the
\* notification found; at: the epoch notified
PoolEpochNotification ==
    /\ ~panicked
    /\ \E r \in EpochNotificationResults :
           /\ Commit(r.act)
           /\ last' = [msg |-> "EpochNotification", pre_state |-> sm_state,
                       at |-> r.act.current_epoch.val, effects |-> r.act.effects]
    /\ UNCHANGED << ticks, arb_vars, core, epoch_manager, controller, app >>

PoolPeersBeacons ==
    /\ ~panicked
    /\ \E r \in PeersBeaconsResults : Commit(r.act)
    /\ last' = [msg |-> "PeersBeacons"]
    /\ UNCHANGED << ticks, arb_vars, core, epoch_manager, controller, app >>

PoolAddCandidates ==
    /\ ~panicked
    /\ \E r \in AddCandidatesResults : Commit(r.act)
    /\ last' = [msg |-> "AddCandidates"]
    /\ UNCHANGED << ticks, arb_vars, core, epoch_manager, controller, app >>

PoolAddTransaction ==
    /\ ~panicked
    /\ \E transaction \in PoolTransactions, verified \in BOOLEAN :
           Commit(AddTransactionHandler(Self, transaction, verified))
    /\ last' = [msg |-> "AddTransaction"]
    /\ UNCHANGED << ticks, arb_vars, core, epoch_manager, controller, app >>

NextPool == PoolEpochNotification \/ PoolPeersBeacons \/ PoolAddCandidates
                \/ PoolAddTransaction

SpecPool == PoolInit /\ [][NextPool]_vars

\* the place of a call among the calls of the last handler, 0 if it was not made
CallIndex(call) == Position({i \in 1..Len(last.effects) : last.effects[i] = call})

\* the last message was an epoch notification that found the node AlmostSynced
\* or Synced and consolidated the best candidate
TickConsolidated ==
    /\ last.msg = "EpochNotification"
    /\ last.pre_state \in {AlmostSynced, Synced}
    /\ CallIndex("consolidate_block") # 0

TickBuiltSuperblock ==
    /\ TickConsolidated
    /\ CallIndex("create_and_broadcast_superblock") # 0

C24_CommitsEmptyAfterEveryEpochNotification ==
    last.msg = "EpochNotification" => transactions_pool.co = {}

\* what the code keeps: the commits are empty after an epoch notification the
\* AlmostSynced | Synced arm handled
CommitsEmptyAfterSyncedArm ==
    /\ last.msg = "EpochNotification"
    /\ CallIndex("clear_commits") # 0
    => transactions_pool.co = {}

\* an epoch notification found the node Synced, fell back to WaitingConsensus
\* and left a commit in the pool
CommitSurvivesFallback ==
    /\ last.msg = "EpochNotification"
    /\ last.pre_state = Synced
    /\ sm_state = WaitingConsensus
    /\ transactions_pool.co # {}

----------------------------------------------------------------------------
(* The ChainManager of core/src/actors/chain_manager: the variable core holds *)
(* its fields; the variables of the node's ChainManager stay as they are.     *)

MaxCoreEpoch == 2

node_vars == << sm_state, current_epoch, peers_beacons_received, chain_state, storage,
                sync_target, candidates, seen_candidates, best_candidate,
                sync_waiting_for_add_blocks_since, panicked, transactions_pool,
                mining_enabled >>

\* the output pointers transactions spend
OutputPointers == {1, 2}

\* the transactions peers send: hash and inputs; one of them has no input
CoreTransactions == {[hash |-> 1, inputs |-> {1}],
                     [hash |-> 2, inputs |-> {1, 2}],
                     [hash |-> 3, inputs |-> {}]}

\* the blocks proposed for an epoch, with the transactions they include
CoreBlocks(epoch) ==
    {[checkpoint |-> epoch, hash |-> 10 * epoch + k, txns |-> t] :
        k \in {1, 2}, t \in {{}, {1}}}

\* a validated block candidate and the unspent outputs it leaves
CoreCandidates(epoch) ==
    {[block |-> b, utxo_set |-> u] : b \in CoreBlocks(epoch), u \in {{1}, {1, 2}}}

\* BTreeMap::insert
MapInsert(map, key, value) ==
    [k \in DOMAIN map \cup {key} |-> IF k = key THEN value ELSE map[k]]

\* ChainInfo with the checkpoint beacon of the chain start and the rest of the
\* chain state at its default
CoreNewChainInfo == [highest_block_checkpoint |-> CheckpointBeacon(0, BootstrapHash)]

\* ChainManager::started: the chain state is initialised; no chain state is
\* stored yet, so a new ChainInfo is created
CoreStartedHandler(c) ==
    IF IsNone(c.chain_info)
    THEN [c EXCEPT !.chain_info = Some(CoreNewChainInfo),
                   !.effects = Append(@, "persist_chain_state")]
    ELSE c

SetNetworkReadyHandler(c, network_ready) == [c EXCEPT !.network_ready = network_ready]

\* TransactionsPool::contains
PoolContains(pool, hash) == \E t \in pool : t.hash = hash

\* TransactionsPool::insert
PoolInsert(pool, transaction) ==
    {t \in pool : t.hash # transaction.hash} \cup {transaction}

\* ChainManager::update_transaction_pool: the transactions of the block leave
\* the pool
update_transaction_pool(pool, txns) == {t \in pool : t.hash \notin txns}

\* ChainState::get_outputs_from_inputs: the outputs the inputs point to, an
\* error if one of them is not found
get_outputs_from_inputs(c, inputs) ==
    IF inputs \subseteq c.unspent_outputs_pool THEN Some(inputs) ELSE None

\* ChainState::find_unspent_outputs: every input is in the unspent outputs pool
find_unspent_outputs(c, inputs) == \A i \in inputs : i \in c.unspent_outputs_pool

\* a consolidation that moves the beacon and leaves block_chain as it was
CoreConsolidateBeaconOnly(c, candidate) ==
    IF IsSome(c.chain_info)
    THEN LET beacon == CheckpointBeacon(candidate.block.checkpoint, candidate.block.hash)
         IN  [c EXCEPT !.chain_info = Some([highest_block_checkpoint |-> beacon]),
                       !.unspent_outputs_pool = candidate.utxo_set,
                       !.transactions_pool = update_transaction_pool(@, candidate.block.txns),
                       !.effects = @ \o <<"consolidate_block", "persist_item",
                                          "persist_chain_state">>]
    ELSE c

\* the consolidation of the best candidate by the epoch handler
CoreConsolidate(c, candidate) ==
    IF IsSome(c.chain_info)
    THEN LET block_hash == candidate.block.hash
             block_epoch == candidate.block.checkpoint
             beacon == CheckpointBeacon(block_epoch, block_hash)
         IN  [c EXCEPT !.chain_info = Some([highest_block_checkpoint |-> beacon]),
                       !.block_chain = MapInsert(@, block_epoch, block_hash),
                       !.unspent_outputs_pool = candidate.utxo_set,
                       !.transactions_pool = update_transaction_pool(@, candidate.block.txns),
                       !.effects = @ \o <<"consolidate_block", "persist_item",
                                          "persist_chain_state">>]
    ELSE c

\* the end of the epoch handler: try_mine_block, then try_mine_data_request
CoreMining(c) ==
    LET block == IF c.mining_enabled /\ c.mine
                 THEN [c EXCEPT !.effects = Append(@, "try_mine_block")]
                 ELSE c
    IN  [block EXCEPT !.effects = Append(@, "try_mine_data_request")]

CoreEpochNotificationHandler(c, checkpoint) ==
    LET c0 == [c EXCEPT !.current_epoch = Some(checkpoint)]
    IN  IF ~c0.network_ready
        THEN c0
        ELSE LET c1 == IF IsSome(c0.best_candidate)
                       THEN CoreConsolidate([c0 EXCEPT !.best_candidate = None],
                                            c0.best_candidate.val)
                       ELSE c0
             IN  CoreMining(c1)

\* ChainManager::process_block: a block of the current epoch becomes the best
\* candidate if there is none or its hash is lower; a node that is synced has
\* its mine flag set
process_block(c, candidate) ==
    IF /\ IsSome(c.chain_info)
       /\ IsSome(c.current_epoch)
       /\ candidate.block.checkpoint = c.current_epoch.val
       /\ (IsNone(c.best_candidate)
              \/ candidate.block.hash < c.best_candidate.val.block.hash)
    THEN [c EXCEPT !.best_candidate = Some(candidate),
                   !.mine = IF c.synced THEN TRUE ELSE @]
    ELSE c

AddNewBlockHandler(c, candidate) == process_block(c, candidate)

\* AddTransaction that does not look the hash up in the pool
CoreAddTransactionNoLookup(c, transaction) ==
    IF IsSome(get_outputs_from_inputs(c, transaction.inputs))
           /\ find_unspent_outputs(c, transaction.inputs)
    THEN [c EXCEPT !.effects = Append(@, "broadcast_item"),
                   !.transactions_pool = PoolInsert(@, transaction)]
    ELSE c

CoreAddTransactionHandler(c, transaction) ==
    IF PoolContains(c.transactions_pool, transaction.hash)
    THEN c
    ELSE IF IsSome(get_outputs_from_inputs(c, transaction.inputs))
    THEN IF find_unspent_outputs(c, transaction.inputs)
         THEN [c EXCEPT !.effects = Append(@, "broadcast_item"),
                        !.transactions_pool = PoolInsert(@, transaction)]
         ELSE c
    ELSE c

PeerLastEpochHandler(c, epoch) ==
    IF epoch = (IF IsSome(c.chain_info)
                THEN c.chain_info.val.highest_block_checkpoint.checkpoint
                ELSE 0)
    THEN [c EXCEPT !.synced = TRUE]
    ELSE [c EXCEPT !.synced = FALSE, !.mine = FALSE, !.best_candidate = None]

\* the ChainManager as constructed
CoreDefault(enabled) ==
    [current_epoch |-> None, network_ready |-> FALSE, best_candidate |-> None,
     chain_info |-> None, block_chain |-> << >>, unspent_outputs_pool |-> {},
     transactions_pool |-> {}, mining_enabled |-> enabled, mine |-> FALSE,
     synced |-> FALSE, effects |-> << >>]

CoreInit ==
    /\ sm_state = WaitingConsensus
    /\ current_epoch = Some(0)
    /\ peers_beacons_received = FALSE
    /\ chain_state = ChainState(BlockBeacon(GenesisBlock))
    /\ storage = Some(chain_state)
    /\ sync_target = None
    /\ candidates = {}
    /\ seen_candidates = {}
    /\ best_candidate = None
    /\ sync_waiting_for_add_blocks_since = None
    /\ panicked = FALSE
    /\ transactions_pool = EmptyPool
    /\ mining_enabled = TRUE
    /\ \E enabled \in BOOLEAN : core = CoreDefault(enabled)
    /\ epoch_manager = None
    /\ controller = None
    /\ app = None
    /\ last = [msg |-> "none"]
    /\ ticks = [at |-> None, since |-> 0]
    /\ arb_in = None
    /\ arb_out = None

\* the handler has run: its fields are stored, the calls it made are observed
\* (for AddTransaction also the transaction and the pool it found)
CoreCommit(c, msg) ==
    /\ core' = [c EXCEPT !.effects = << >>]
    /\ last' = [msg |-> msg, effects |-> c.effects]
    /\ UNCHANGED << node_vars, ticks, arb_vars, epoch_manager, controller, app >>

CoreStarted ==
    /\ IsNone(core.chain_info)
    /\ CoreCommit(CoreStartedHandler(core), "Started")

CoreSetNetworkReady ==
    /\ \E network_ready \in BOOLEAN :
           CoreCommit(SetNetworkReadyHandler(core, network_ready), "SetNetworkReady")

CoreEpochNotification ==
    LET checkpoint == IF IsSome(core.current_epoch) THEN core.current_epoch.val + 1 ELSE 0
    IN  /\ checkpoint <= MaxCoreEpoch
        /\ CoreCommit(CoreEpochNotificationHandler(core, checkpoint), "EpochNotification")

CoreAddNewBlock ==
    /\ \E epoch \in 0..MaxCoreEpoch : \E candidate \in CoreCandidates(epoch) :
           CoreCommit(AddNewBlockHandler(core, candidate), "AddNewBlock")

CoreAddTransaction ==
    /\ \E transaction \in CoreTransactions :
           /\ core' = [CoreAddTransactionHandler(core, transaction) EXCEPT !.effects = << >>]
           /\ last' = [msg |-> "AddTransaction", transaction |-> transaction,
                       pool |-> core.transactions_pool,
                       effects |-> CoreAddTransactionHandler(core, transaction).effects]
    /\ UNCHANGED << node_vars, ticks, arb_vars, epoch_manager, controller, app >>

CorePeerLastEpoch ==
    /\ \E epoch \in 0..MaxCoreEpoch :
           CoreCommit(PeerLastEpochHandler(core, epoch), "PeerLastEpoch")

NextCore == CoreStarted \/ CoreSetNetworkReady \/ CoreEpochNotification
                \/ CoreAddNewBlock \/ CoreAddTransaction \/ CorePeerLastEpoch

SpecCore == CoreInit /\ [][NextCore]_vars

\* C23 as stated: in every epoch the data-request mining is started before the
\* block mining; block mining is never started before the data-request mining
\* of that epoch.
C23_DataRequestMiningBeforeBlockMining ==
    /\ last.msg = "EpochNotification"
    /\ CallIndex("try_mine_block") # 0
    => /\ CallIndex("try_mine_data_request") # 0
       /\ CallIndex("try_mine_data_request") < CallIndex("try_mine_block")

\* the transaction of the last AddTransaction was in the pool already
AddTransactionKnown == PoolContains(last.pool, last.transaction.hash)

\* every input of the transaction of the last AddTransaction is an unspent output
AddTransactionSpendable == last.transaction.inputs \subseteq core.unspent_outputs_pool

\* C25: AddTransaction leaves the pool as it was and broadcasts nothing if the
\* hash is in the pool already or an input is not in the unspent outputs pool;
\* otherwise it broadcasts the transaction once and the pool holds it under its
\* hash exactly once, together with what it held before.
C25_AddTransactionRejectsDuplicatesAndUnspendable ==
    last.msg = "AddTransaction" =>
        IF AddTransactionKnown \/ ~AddTransactionSpendable
        THEN /\ core.transactions_pool = last.pool
             /\ last.effects = << >>
        ELSE /\ last.effects = <<"broadcast_item">>
             /\ core.transactions_pool = last.pool \cup {last.transaction}
             /\ Cardinality({t \in core.transactions_pool :
                                t.hash = last.transaction.hash}) = 1

\* a transaction whose inputs are all unspent arrives a second time while the
\* pool holds it and another one
C25_SpendableDuplicateArrives ==
    /\ last.msg = "AddTransaction"
    /\ AddTransactionKnown
    /\ AddTransactionSpendable
    /\ last.transaction.inputs # {}
    /\ Cardinality(last.pool) = 2

\* block_chain maps the checkpoint of the highest block beacon to its hash
BlockChainMapsHighestCheckpoint ==
    LET beacon == core.chain_info.val.highest_block_checkpoint
    IN  /\ beacon.checkpoint \in DOMAIN core.block_chain
        /\ core.block_chain[beacon.checkpoint] = beacon.hash_prev_block

\* C26 as stated: in every reachable chain state block_chain maps
\* highest_block_checkpoint.checkpoint to highest_block_checkpoint.hash_prev_block.
C26_BlockChainMapsHighestCheckpointAlways ==
    IsSome(core.chain_info) => BlockChainMapsHighestCheckpoint

\* C26: in every reachable chain state that has consolidated a block,
\* block_chain maps highest_block_checkpoint.checkpoint to
\* highest_block_checkpoint.hash_prev_block: consolidation moves the beacon and
\* inserts the entry together. Before the first consolidation the beacon is
\* the one of the chain start and block_chain is empty.
C26_BlockChainMapsHighestCheckpointOnceConsolidated ==
    IsSome(core.chain_info) =>
        IF DOMAIN core.block_chain = {}
        THEN core.chain_info.val = CoreNewChainInfo
        ELSE BlockChainMapsHighestCheckpoint

\* the second block has just been consolidated
C26_SecondBlockConsolidated ==
    /\ last.msg = "EpochNotification"
    /\ CallIndex("consolidate_block") # 0
    /\ Cardinality(DOMAIN core.block_chain) = 2
    /\ BlockChainMapsHighestCheckpoint

----------------------------------------------------------------------------
(* The EpochManager of core/src/actors/epoch_manager. Timestamps are i64 and  *)
(* epochs u64 in the source; here both have TimestampBits bits, and the u16   *)
(* period has PeriodBits bits, so that every overflow of the source occurs.   *)

TimestampBits == 5

PeriodBits == 2

I64Min == -(2 ^ (TimestampBits - 1))

I64Max == 2 ^ (TimestampBits - 1) - 1

U64Max == 2 ^ TimestampBits - 1

U16Max == 2 ^ PeriodBits - 1

I64 == I64Min..I64Max

\* the two's complement wrap of a value that left the range of i64
WrapI64(x) == ((x - I64Min + 2 ^ TimestampBits) % (2 ^ TimestampBits)) + I64Min

Ok(v) == [tag |-> "Ok", val |-> v]

Err(e) == [tag |-> "Err", err |-> e]

\* the thread panicked ("attempt to subtract with overflow")
Panic == [tag |-> "Panic"]

EpochManagerDefault == [checkpoint_zero_timestamp |-> None, checkpoints_period |-> None]

set_checkpoint_zero(em, timestamp) ==
    [em EXCEPT !.checkpoint_zero_timestamp = Some(timestamp)]

set_period(em, period) ==
    [em EXCEPT !.checkpoints_period = Some(IF period = 0 THEN 1 ELSE period)]

\* overflow_checks: the build checks arithmetic overflow (debug) and panics, or
\* does not (release) and the subtraction wraps
epoch_at(em, timestamp, overflow_checks) ==
    IF IsNone(em.checkpoint_zero_timestamp)
    THEN Err("UnknownEpochZero")
    ELSE IF IsNone(em.checkpoints_period)
    THEN Err("UnknownCheckpointPeriod")
    ELSE LET zero == em.checkpoint_zero_timestamp.val
             period == em.checkpoints_period.val
             difference == timestamp - zero
         IN  IF difference \notin I64 /\ overflow_checks
             THEN Panic
             ELSE LET elapsed == WrapI64(difference)
                  IN  IF elapsed < 0
                      THEN Err("CheckpointZeroInTheFuture")
                      ELSE Ok(elapsed \div period)

\* epoch_timestamp that casts the product to i64 without the range filter
epoch_timestamp_unfiltered(em, epoch) ==
    IF IsNone(em.checkpoint_zero_timestamp)
    THEN Err("UnknownEpochZero")
    ELSE IF IsNone(em.checkpoints_period)
    THEN Err("UnknownCheckpointPeriod")
    ELSE LET zero == em.checkpoint_zero_timestamp.val
             product == em.checkpoints_period.val * epoch
         IN  IF product > U64Max
             THEN Err("Overflow")
             ELSE IF WrapI64(product) + zero \notin I64
             THEN Err("Overflow")
             ELSE Ok(WrapI64(product) + zero)

epoch_timestamp(em, epoch) ==
    IF IsNone(em.checkpoint_zero_timestamp)
    THEN Err("UnknownEpochZero")
    ELSE IF IsNone(em.checkpoints_period)
    THEN Err("UnknownCheckpointPeriod")
    ELSE LET zero == em.checkpoint_zero_timestamp.val
             product == em.checkpoints_period.val * epoch
         IN  IF product > U64Max
             THEN Err("Overflow")
             ELSE IF product > I64Max
             THEN Err("Overflow")
             ELSE IF product + zero \notin I64
             THEN Err("Overflow")
             ELSE Ok(product + zero)

EpochInit ==
    /\ sm_state = WaitingConsensus
    /\ current_epoch = Some(0)
    /\ peers_beacons_received = FALSE
    /\ chain_state = ChainState(BlockBeacon(GenesisBlock))
    /\ storage = Some(chain_state)
    /\ sync_target = None
    /\ candidates = {}
    /\ seen_candidates = {}
    /\ best_candidate = None
    /\ sync_waiting_for_add_blocks_since = None
    /\ panicked = FALSE
    /\ transactions_pool = EmptyPool
    /\ mining_enabled = TRUE
    /\ core = None
    /\ epoch_manager = EpochManagerDefault
    /\ controller = None
    /\ app = None
    /\ last = [msg |-> "none"]
    /\ ticks = [at |-> None, since |-> 0]
    /\ arb_in = None
    /\ arb_out = None

EpochSetCheckpointZero ==
    /\ \E timestamp \in I64 :
           epoch_manager' = set_checkpoint_zero(epoch_manager, timestamp)
    /\ last' = [msg |-> "set_checkpoint_zero"]
    /\ UNCHANGED << node_vars, core, ticks, arb_vars, controller, app >>

EpochSetPeriod ==
    /\ \E period \in 0..U16Max :
           /\ epoch_manager' = set_period(epoch_manager, period)
           /\ last' = [msg |-> "set_period", period |-> period]
    /\ UNCHANGED << node_vars, core, ticks, arb_vars, controller, app >>

EpochAt ==
    /\ \E timestamp \in I64, overflow_checks \in BOOLEAN :
           last' = [msg |-> "epoch_at", timestamp |-> timestamp,
                    overflow_checks |-> overflow_checks,
                    result |-> epoch_at(epoch_manager, timestamp, overflow_checks)]
    /\ UNCHANGED << node_vars, core, epoch_manager, ticks, arb_vars, controller, app >>

EpochTimestamp ==
    /\ \E epoch \in 0..U64Max :
           last' = [msg |-> "epoch_timestamp", epoch |-> epoch,
                    result |-> epoch_timestamp(epoch_manager, epoch)]
    /\ UNCHANGED << node_vars, core, epoch_manager, ticks, arb_vars, controller, app >>

NextEpoch == EpochSetCheckpointZero \/ EpochSetPeriod \/ EpochAt \/ EpochTimestamp

SpecEpoch == EpochInit /\ [][NextEpoch]_vars

\* both constants of the EpochManager are set
EpochConstantsSet ==
    /\ IsSome(epoch_manager.checkpoint_zero_timestamp)
    /\ IsSome(epoch_manager.checkpoints_period)

Zero == epoch_manager.checkpoint_zero_timestamp.val

Period == epoch_manager.checkpoints_period.val

\* what the statement says epoch_at returns for a timestamp
EpochAtAsStated(timestamp) ==
    IF IsNone(epoch_manager.checkpoint_zero_timestamp)
    THEN Err("UnknownEpochZero")
    ELSE IF IsNone(epoch_manager.checkpoints_period)
    THEN Err("UnknownCheckpointPeriod")
    ELSE IF timestamp < Zero
    THEN Err("CheckpointZeroInTheFuture")
    ELSE Ok((timestamp - Zero) \div Period)

\* C27 as stated: epoch_at(t) is floor((t - zero) / period) if both constants
\* are set and t >= zero, CheckpointZeroInTheFuture if t < zero,
\* UnknownEpochZero if zero is unset, UnknownCheckpointPeriod if only the period
\* is unset; it is monotone in t; set_period(0) stores 1 and the stored period
\* is never 0.
C27_EpochAtIsFloorOfElapsedOverPeriod ==
    /\ last.msg = "epoch_at" =>
        /\ last.result = EpochAtAsStated(last.timestamp)
        /\ \A later \in I64 :
               LET after == epoch_at(epoch_manager, later, last.overflow_checks)
               IN  later >= last.timestamp /\ last.result.tag = "Ok" /\ after.tag = "Ok"
                       => last.result.val <= after.val
    /\ last.msg = "set_period" /\ last.period = 0 => Period = 1
    /\ IsSome(epoch_manager.checkpoints_period) => Period # 0

\* what the code keeps: the same, for timestamps whose distance to checkpoint
\* zero fits an i64
EpochAtWithoutOverflow ==
    /\ last.msg = "epoch_at"
           /\ (EpochConstantsSet => last.timestamp - Zero \in I64)
       => /\ last.result = EpochAtAsStated(last.timestamp)
          /\ \A later \in I64 :
                 LET after == epoch_at(epoch_manager, later, last.overflow_checks)
                 IN  /\ later >= last.timestamp
                     /\ last.result.tag = "Ok" /\ after.tag = "Ok"
                     /\ later - Zero \in I64
                     => last.result.val <= after.val
    /\ last.msg = "set_period" /\ last.period = 0 => Period = 1
    /\ IsSome(epoch_manager.checkpoints_period) => Period # 0

\* what the statement says epoch_timestamp returns for an epoch
EpochTimestampAsStated(epoch) ==
    IF Period * epoch > I64Max \/ Period * epoch + Zero \notin I64
    THEN Err("Overflow")
    ELSE Ok(Period * epoch + Zero)

----------------------------------------------------------------------------
(* The start of the node: the actor is constructed, started() reads the chain *)
(* state from storage, and the node runs from there.                          *)

\* ChainState::default(): no chain_info, no reputation_engine
DefaultChainState == [NewChainState EXCEPT !.complete = FALSE]

\* the chain states a former run, of this or another configuration, left in
\* storage
StoredChainStates ==
    {[highest_block_checkpoint |-> beacon, environment |-> environment,
      consensus_constants |-> consensus_constants, complete |-> complete] :
        beacon \in {CheckpointBeacon(0, BootstrapHash), BlockBeacon(GenesisBlock)},
        environment \in {ConfigEnvironment, "Testnet"},
        consensus_constants \in {ConfigConsensusConstants, "other"},
        complete \in BOOLEAN}

StartupInit ==
    /\ sm_state = WaitingConsensus
    /\ current_epoch = Some(0)
    /\ peers_beacons_received = FALSE
    /\ chain_state = DefaultChainState
    /\ storage \in {None} \cup {Some(stored) : stored \in StoredChainStates}
    /\ sync_target = None
    /\ candidates = {}
    /\ seen_candidates = {}
    /\ best_candidate = None
    /\ sync_waiting_for_add_blocks_since = None
    /\ panicked = FALSE
    /\ transactions_pool = EmptyPool
    /\ mining_enabled = TRUE
    /\ core = None
    /\ epoch_manager = None
    /\ controller = None
    /\ app = None
    /\ last = [msg |-> "none"]
    /\ ticks = [at |-> None, since |-> 0]
    /\ arb_in = None
    /\ arb_out = None

\* what a handler of the started node leaves: the calls it made, and the chain
\* state and the snapshot it found
ObservedStartup(msg, act) ==
    [msg |-> msg, effects |-> act.effects, chain_state |-> chain_state,
     storage |-> storage]

\* Actor::started
StartupStarted ==
    /\ last.msg = "none"
    /\ \E read_ok \in BOOLEAN :
           LET act == initialize_from_storage(Self, read_ok)
           IN  /\ Commit(act)
               /\ last' = ObservedStartup("Started", act)
    /\ UNCHANGED << ticks, arb_vars, core, epoch_manager, controller, app >>

StartupEpochNotification ==
    /\ last.msg # "none"
    /\ ~panicked
    /\ \E r \in EpochNotificationResults :
           /\ Commit(r.act)
           /\ last' = ObservedStartup("EpochNotification", r.act)
    /\ UNCHANGED << ticks, arb_vars, core, epoch_manager, controller, app >>

StartupPeersBeacons ==
    /\ last.msg # "none"
    /\ ~panicked
    /\ \E r \in PeersBeaconsResults :
           /\ Commit(r.act)
           /\ last' = ObservedStartup("PeersBeacons", r.act)
    /\ UNCHANGED << ticks, arb_vars, core, epoch_manager, controller, app >>

StartupAddCandidates ==
    /\ last.msg # "none"
    /\ ~panicked
    /\ \E r \in AddCandidatesResults :
           /\ Commit(r.act)
           /\ last' = ObservedStartup("AddCandidates", r.act)
    /\ UNCHANGED << ticks, arb_vars, core, epoch_manager, controller, app >>

NextStartup == StartupStarted \/ StartupEpochNotification \/ StartupPeersBeacons
                   \/ StartupAddCandidates

SpecStartup == StartupInit /\ [][NextStartup]_vars

\* the node has just started on a complete stored chain state of another
\* environment or of other consensus constants
StartedOnMismatchingSnapshot ==
    /\ last.msg = "Started"
    /\ CallIndex("error_getting_chain_state") = 0
    /\ IsSome(last.storage)
    /\ last.storage.val.complete
    /\ \/ last.storage.val.environment # ConfigEnvironment
       \/ last.storage.val.consensus_constants # ConfigConsensusConstants

\* C29: if the stored chain state is complete and its environment or its
\* consensus constants differ from the configuration, initialize_from_storage
\* panics: the chain state of the actor is still the default one, no new chain
\* state is created and nothing is persisted.
C29_MismatchingSnapshotIsFatal ==
    StartedOnMismatchingSnapshot =>
        /\ panicked
        /\ chain_state = last.chain_state
        /\ chain_state = DefaultChainState
        /\ storage = last.storage
        /\ CallIndex("persist_chain_state") = 0

\* the stored chain state is of the environment of the configuration, its
\* consensus constants are not
C29_StartedOnOtherConsensusConstants ==
    /\ StartedOnMismatchingSnapshot
    /\ last.storage.val.environment = ConfigEnvironment
    /\ last.storage.val.highest_block_checkpoint = BlockBeacon(GenesisBlock)
    /\ panicked

\* C30 as stated: if reading the chain state from storage fails during
\* initialize_from_storage, at startup or in a recovery, the chain state in
\* memory and the persisted snapshot are left as they were.
C30_ReadErrorLeavesChainStateAndSnapshot ==
    /\ last.msg \in {"Started", "PeersBeacons"}
    /\ CallIndex("error_getting_chain_state") # 0
    => /\ chain_state = last.chain_state
       /\ storage = last.storage

\* a read error in the recovery of a running node replaces the chain state and
\* the snapshot by a new chain state
ReadErrorInRecoveryResetsChain ==
    /\ last.msg = "PeersBeacons"
    /\ CallIndex("error_getting_chain_state") # 0
    /\ last.chain_state.highest_block_checkpoint.checkpoint > 0
    /\ last.storage = Some(last.chain_state)
    /\ chain_state = NewChainState
    /\ storage = Some(NewChainState)

----------------------------------------------------------------------------
(* The node observed for the beacons between two ticks: ticks.since is 1 if a *)
(* PeersBeacons message with a non-empty pb was handled after the last epoch  *)
(* notification, ticks.at whether one with an empty pb was.                   *)

BeaconsEpochNotification ==
    /\ ~panicked
    /\ \E act \in {r.act : r \in EpochNotificationResults} : Commit(act)
    /\ ticks' = [at |-> Some(FALSE), since |-> 0]
    /\ last' = [msg |-> "EpochNotification", pre_state |-> sm_state,
                since |-> ticks.since, empty |-> ticks.at = Some(TRUE)]
    /\ UNCHANGED << arb_vars, core, epoch_manager, controller, app >>

BeaconsPeersBeacons ==
    /\ ~panicked
    /\ \E pb \in PbSet :
           /\ \E r \in PeersBeaconsResultsFor(pb) : Commit(r.act)
           /\ ticks' = IF pb # << >> THEN [ticks EXCEPT !.since = 1]
                       ELSE [ticks EXCEPT !.at = Some(TRUE)]
    /\ last' = [msg |-> "PeersBeacons"]
    /\ UNCHANGED << arb_vars, core, epoch_manager, controller, app >>

BeaconsAddBlocks ==
    /\ ~panicked
    /\ \E act \in {r.act : r \in AddBlocksResults} : Commit(act)
    /\ last' = [msg |-> "AddBlocks"]
    /\ UNCHANGED << ticks, arb_vars, core, epoch_manager, controller, app >>

BeaconsAddCandidates ==
    /\ ~panicked
    /\ \E act \in {r.act : r \in AddCandidatesResults} : Commit(act)
    /\ last' = [msg |-> "AddCandidates"]
    /\ UNCHANGED << ticks, arb_vars, core, epoch_manager, controller, app >>

NextBeacons ==
    BeaconsEpochNotification \/ BeaconsPeersBeacons \/ BeaconsAddBlocks
        \/ BeaconsAddCandidates

SpecBeacons == Init /\ [][NextBeacons]_vars

\* C32: if no PeersBeacons message with a non-empty pb was handled since the
\* previous epoch notification, the tick leaves the machine in WaitingConsensus
\* with candidates and seen_candidates empty; peers_beacons_received is false
\* after every tick.
C32_NoBeaconsTickFallsBack ==
    last.msg = "EpochNotification" =>
        /\ ~peers_beacons_received
        /\ last.since = 0 =>
               /\ sm_state = WaitingConsensus
               /\ candidates = {}
               /\ seen_candidates = {}

\* a Synced node that has handled only a PeersBeacons message with an empty pb
\* since the last tick is notified of the next epoch and falls back
C32_SyncedTickAfterEmptyBeacons ==
    /\ last.msg = "EpochNotification"
    /\ last.pre_state = Synced
    /\ last.since = 0
    /\ last.empty
    /\ sm_state = WaitingConsensus

----------------------------------------------------------------------------
(* A PeersBeacons message handled by a Synced node *)

\* the peers of the message agree on the block the node is on
PeersAgreeWithUs ==
    /\ IsSome(last.consensus)
    /\ last.consensus.val.beacon.highest_block_checkpoint = last.our_beacon

----------------------------------------------------------------------------
(* An AddBlocks message outside Synchronizing *)

\* the step leaves the chain state, its snapshot and the machine as they were
ChainAndMachineUnchanged ==
    /\ sm_state' = sm_state
    /\ chain_state' = chain_state
    /\ storage' = storage

\* C34: an AddBlocks message handled in AlmostSynced or Synced changes neither
\* the chain state nor the state of the machine; handled in WaitingConsensus it
\* never changes the state of the machine, and a block is processed only when
\* the message holds exactly one block, the genesis block; any other message
\* leaves the chain state as it was.
C34_AddBlocksOnlyGenesisOutsideSynchronizing ==
    [][(last'.msg = "AddBlocks" /\ sm_state # Synchronizing) =>
           /\ sm_state' = sm_state
           /\ last'.processed = 0 => ChainAndMachineUnchanged
           /\ last'.processed > 0 =>
                  /\ sm_state = WaitingConsensus
                  /\ last'.batch = 1
                  /\ last'.processed = 1
                  /\ chain_state'.highest_block_checkpoint = BlockBeacon(GenesisBlock)]_vars

\* a node in WaitingConsensus was sent the genesis block followed by another
\* block and processed none of them
C34_GenesisWithFollowerIgnored ==
    /\ last.msg = "AddBlocks"
    /\ last.pre_state = WaitingConsensus
    /\ last.batch = 2
    /\ last.processed = 0
    /\ chain_state = NewChainState
    /\ sm_state = WaitingConsensus

----------------------------------------------------------------------------
(* The node while it synchronizes: its only outbound peer reports any block   *)
(* of SyncBlocks with any superblock index up to MaxSyncIndex, whatever the   *)
(* epoch of the node, and the epoch manager notifies the epochs of SyncEpochs *)

\* the highest superblock index a peer reports
MaxSyncIndex == 1

\* the epochs the node is notified of, in this order, some of them missed
SyncEpochs == {1, 6, 7}

\* the top blocks the peer reports and the blocks it sends
SyncBlocks == {Block(1, 2), Block(2, 4)}

SyncPbSet ==
    {<< >>} \cup
    {<<Some(LastBeacon(BlockBeacon(b), CheckpointBeacon(s, s)))>> :
        b \in SyncBlocks, s \in 0..MaxSyncIndex}

\* no block, or the top block of the node followed by one block
SyncBatchSet == {<< >>} \cup {<<GenesisBlock, b>> : b \in SyncBlocks}

SyncEpochNotification ==
    /\ ~panicked
    /\ \E checkpoint \in {c \in SyncEpochs : c > current_epoch.val} :
          LET r == EpochNotificationResult(checkpoint)
          IN  Commit(r.act) /\ last' = r.obs
    /\ UNCHANGED << ticks, arb_vars, core, epoch_manager, controller, app >>

SyncPeersBeacons ==
    /\ ~panicked
    /\ \E pb \in SyncPbSet : \E r \in PeersBeaconsResultsFor(pb) :
          Commit(r.act) /\ last' = r.obs
    /\ UNCHANGED << ticks, arb_vars, core, epoch_manager, controller, app >>

SyncAddBlocks ==
    /\ ~panicked
    /\ \E blocks \in SyncBatchSet : \E r \in AddBlocksResultsFor(blocks) :
          Commit(r.act) /\ last' = r.obs
    /\ UNCHANGED << ticks, arb_vars, core, epoch_manager, controller, app >>

NextSync == SyncEpochNotification \/ SyncPeersBeacons \/ SyncAddBlocks

SpecSync == Init /\ [][NextSync]_vars

----------------------------------------------------------------------------
(* An AddBlocks message that ends a synchronization round without a block *)

\* C35 as stated: handled in Synchronizing with a sync target, an AddBlocks
\* message without blocks, or one whose batch is rejected with
\* WrongBlocksForSuperblock, moves the machine to WaitingConsensus and
\* processes no block; the empty message leaves the chain state equal to its
\* snapshot; in both cases sync_waiting_for_add_blocks_since is None afterwards.
C35_EmptyOrWrongBatchFallsBackAndForgets ==
    [][(/\ last'.msg = "AddBlocks"
        /\ sm_state = Synchronizing
        /\ IsSome(sync_target)
        /\ last'.batch = 0 \/ last'.split = "WrongBlocksForSuperblock") =>
           /\ sm_state' = WaitingConsensus
           /\ last'.processed = 0
           /\ last'.batch = 0 => storage' = Some(chain_state')
           /\ sync_waiting_for_add_blocks_since' = None]_vars

\* what holds: the same, but the empty message leaves
\* sync_waiting_for_add_blocks_since as it was
EmptyOrWrongBatchFallsBack ==
    [][(/\ last'.msg = "AddBlocks"
        /\ sm_state = Synchronizing
        /\ IsSome(sync_target)
        /\ last'.batch = 0 \/ last'.split = "WrongBlocksForSuperblock") =>
           /\ sm_state' = WaitingConsensus
           /\ last'.processed = 0
           /\ last'.batch = 0 =>
                  /\ storage' = Some(chain_state')
                  /\ sync_waiting_for_add_blocks_since' = sync_waiting_for_add_blocks_since
           /\ last'.batch > 0 => sync_waiting_for_add_blocks_since' = None]_vars

\* a node that fell back to WaitingConsensus on an empty AddBlocks message
\* still holds the epoch at which it requested the blocks
StaleSyncStartAfterEmptyBatch ==
    /\ last.msg = "AddBlocks"
    /\ last.pre_state = Synchronizing
    /\ last.batch = 0
    /\ sm_state = WaitingConsensus
    /\ IsSome(sync_waiting_for_add_blocks_since)

\* at epoch 6 with a sync target on superblock 1, a batch with a block of
\* epoch 2 was rejected with WrongBlocksForSuperblock
WrongBatchRejected ==
    /\ last.msg = "AddBlocks"
    /\ last.split = "WrongBlocksForSuperblock"
    /\ last.processed = 0
    /\ sm_state = WaitingConsensus
    /\ IsNone(sync_waiting_for_add_blocks_since)

----------------------------------------------------------------------------
(* The requests the ChainManager answers.  A reply is Ok(value) or Err(error); *)
(* the values are named, not computed.  own_utxos is written by build_vtt and *)
(* build_drt only, which take it by mutable reference: the calls are logged.  *)

\* ChainManagerError::NotSynced { current_state }
NotSynced(current_state) == [error |-> "NotSynced", current_state |-> current_state]

\* the transaction a BuildVtt or BuildDrt request builds
BuiltTransaction == [hash |-> 2, commit |-> FALSE]

\* GetBalanceHandler without the check of the state
GetBalanceHandlerUnguarded(act) == [act |-> act, reply |-> Ok("balance")]

\* Handler<BuildVtt>; built, signed: the outcomes of build_vtt and
\* sign_transaction; verified: of the signatures check of AddTransaction
BuildVttHandler(act, built, signed, verified) ==
    IF act.sm_state # Synced
    THEN [act |-> act, reply |-> Err(NotSynced(act.sm_state))]
    ELSE LET a1 == Effect(act, "build_vtt")
         IN  IF ~built THEN [act |-> a1, reply |-> Err("build_vtt")]
             ELSE IF ~signed THEN [act |-> a1, reply |-> Err("sign_transaction")]
             ELSE [act |-> AddTransactionHandler(a1, BuiltTransaction, verified),
                   reply |-> Ok(BuiltTransaction.hash)]

\* Handler<BuildDrt>; valid: the verdict of validate_rad_request
BuildDrtHandler(act, valid, built, signed, verified) ==
    IF act.sm_state # Synced
    THEN [act |-> act, reply |-> Err(NotSynced(act.sm_state))]
    ELSE IF ~valid THEN [act |-> act, reply |-> Err("validate_rad_request")]
    ELSE LET a1 == Effect(act, "build_drt")
         IN  IF ~built THEN [act |-> a1, reply |-> Err("build_drt")]
             ELSE IF ~signed THEN [act |-> a1, reply |-> Err("sign_transaction")]
             ELSE [act |-> AddTransactionHandler(a1, BuiltTransaction, verified),
                   reply |-> Ok(BuiltTransaction.hash)]

\* Handler<GetState>
GetStateHandler(act) == [act |-> act, reply |-> Ok(act.sm_state)]

\* Handler<GetBalance>
GetBalanceHandler(act) ==
    IF act.sm_state # Synced
    THEN [act |-> act, reply |-> Err(NotSynced(act.sm_state))]
    ELSE [act |-> act, reply |-> Ok("balance")]

\* Handler<GetUtxoInfo>
GetUtxoInfoHandler(act) ==
    IF act.sm_state # Synced
    THEN [act |-> act, reply |-> Err(NotSynced(act.sm_state))]
    ELSE [act |-> act, reply |-> Ok("utxo_info")]

\* Handler<GetReputation>, Handler<GetReputationAll> and
\* Handler<GetReputationStatus>, which differ in the value they read from the
\* reputation engine; ready: the chain state holds a reputation engine
GetReputationHandler(act, ready) ==
    IF act.sm_state # Synced
    THEN [act |-> act, reply |-> Err(NotSynced(act.sm_state))]
    ELSE IF ~ready THEN [act |-> act, reply |-> Err("ChainNotReady")]
    ELSE [act |-> act, reply |-> Ok("reputation")]

\* Handler<GetBlocksEpochRange>: accepted in any state
GetBlocksEpochRangeHandler(act) == [act |-> act, reply |-> Ok("hashes")]

\* Handler<GetMempool>
GetMempoolHandler(act) == [act |-> act, reply |-> Ok("mempool")]

GuardedRequests ==
    {"BuildVtt", "BuildDrt", "GetBalance", "GetUtxoInfo", "GetReputation",
     "GetReputationAll", "GetReputationStatus"}

OpenRequests == {"GetState", "GetBlocksEpochRange", "GetMempool"}

\* what the handler of a request can do
RequestResults(request) ==
    CASE request = "BuildVtt" ->
             {BuildVttHandler(Self, built, signed, verified) :
                 built \in BOOLEAN, signed \in BOOLEAN, verified \in BOOLEAN}
      [] request = "BuildDrt" ->
             {BuildDrtHandler(Self, valid, built, signed, verified) :
                 valid \in BOOLEAN, built \in BOOLEAN, signed \in BOOLEAN,
                 verified \in BOOLEAN}
      [] request = "GetState" -> {GetStateHandler(Self)}
      [] request = "GetBalance" -> {GetBalanceHandler(Self)}
      [] request = "GetUtxoInfo" -> {GetUtxoInfoHandler(Self)}
      [] request \in {"GetReputation", "GetReputationAll", "GetReputationStatus"} ->
             {GetReputationHandler(Self, ready) : ready \in BOOLEAN}
      [] request = "GetBlocksEpochRange" -> {GetBlocksEpochRangeHandler(Self)}
      [] request = "GetMempool" -> {GetMempoolHandler(Self)}

\* a client sends a request
Request ==
    /\ ~panicked
    /\ \E request \in GuardedRequests \cup OpenRequests :
          \E r \in RequestResults(request) :
              /\ Commit(r.act)
              /\ last' = [msg |-> request, pre_state |-> sm_state, reply |-> r.reply,
                          effects |-> r.act.effects]
    /\ UNCHANGED << ticks, arb_vars, core, epoch_manager, controller, app >>

NextRequests == EpochNotification \/ PeersBeacons \/ Request

SpecRequests == Init /\ [][NextRequests]_vars

\* the handler called build_vtt or build_drt, which write own_utxos
WroteOwnUtxos(effects) ==
    \E i \in 1..Len(effects) : effects[i] \in {"build_vtt", "build_drt"}

\* C36: BuildVtt, BuildDrt, GetBalance, GetUtxoInfo, GetReputation,
\* GetReputationAll and GetReputationStatus handled in a state other than Synced
\* are answered with NotSynced carrying that state and leave own_utxos, the
\* transactions pool and the chain state as they were; GetState,
\* GetBlocksEpochRange and GetMempool are answered with Ok in every state, GetState
\* with the state of the machine.
C36_RequestsNeedSyncedExceptThree ==
    [][/\ (last'.msg \in GuardedRequests /\ sm_state # Synced) =>
              /\ last'.reply = Err(NotSynced(sm_state))
              /\ ~WroteOwnUtxos(last'.effects)
              /\ transactions_pool' = transactions_pool
              /\ chain_state' = chain_state
       /\ last'.msg \in OpenRequests => last'.reply.tag = "Ok"
       /\ last'.msg = "GetState" => last'.reply = Ok(sm_state)]_vars

\* a node that is Synchronizing refused a GetBalance request
C36_BalanceRefusedWhileSynchronizing ==
    /\ last.msg = "GetBalance"
    /\ last.pre_state = Synchronizing
    /\ last.reply = Err(NotSynced(Synchronizing))
    /\ sm_state = Synchronizing

\* a Synced node built a value transfer transaction
SyncedBuiltVtt ==
    /\ last.msg = "BuildVtt"
    /\ last.pre_state = Synced
    /\ last.reply = Ok(BuiltTransaction.hash)
    /\ WroteOwnUtxos(last.effects)

----------------------------------------------------------------------------
(* The parts of a split batch put together again *)

\* C37: for every successful result of split_blocks_batch_at_target the parts,
\* in order (blocks; consolidate then remaining; consolidate, candidate then
\* remaining), make up the batch it was given, sorted or not.
C37_PartsMakeUpTheBatch ==
    IsSome(arb_out) =>
        /\ arb_out.val.tag = "TargetNotReached" => arb_out.val.blocks = arb_in.val.blocks
        /\ arb_out.val.tag = "SyncWithoutCandidate" =>
               arb_out.val.consolidate \o arb_out.val.remaining = arb_in.val.blocks
        /\ arb_out.val.tag = "SyncWithCandidate" =>
               arb_out.val.consolidate \o arb_out.val.candidate \o arb_out.val.remaining
                   = arb_in.val.blocks

\* an unsorted batch cut in three: the parts keep the order of the batch
C37_UnsortedBatchCutInThree ==
    /\ IsSome(arb_out)
    /\ SplitEpochs = <<1, 4, 3>>
    /\ SplitPeriod = 2
    /\ SplitT = 1
    /\ SplitC = 2
    /\ arb_out.val.tag = "SyncWithCandidate"
    /\ arb_out.val.consolidate = <<[checkpoint |-> 1]>>
    /\ arb_out.val.candidate = << >>
    /\ arb_out.val.remaining = <<[checkpoint |-> 4], [checkpoint |-> 3]>>

----------------------------------------------------------------------------
(* The assertion of split_blocks_batch_at_target, reached from the handler *)

\* C38 as stated: whenever the AddBlocks handler splits a batch,
\* current_epoch / superblock_period is at least the superblock index of the
\* sync target, so the node never panics with "Provided a sync target that is
\* in the future".
C38_SyncTargetNeverInTheFuture ==
    /\ last.msg = "AddBlocks" => last.split # "Panic"
    /\ ~panicked

\* the sync target of a node that is Synchronizing names a superblock index
\* the node has not reached
SyncTargetAhead ==
    /\ sm_state = Synchronizing
    /\ IsSome(sync_target)
    /\ current_epoch.val \div SuperblockPeriod < sync_target.val.superblock.checkpoint

\* a node took the superblock index its peer reported as its sync target, was
\* sent a batch and panicked
PanickedOnPeerTarget ==
    /\ last.msg = "AddBlocks"
    /\ last.pre_state = Synchronizing
    /\ last.split = "Panic"
    /\ last.batch = 2
    /\ panicked
    /\ current_epoch = Some(0)
    /\ sync_target.val.superblock.checkpoint = 1

----------------------------------------------------------------------------
(* The node among peers that agree with it: the chain holds the genesis block, *)
(* every epoch is notified in turn up to MaxProgressEpoch, the outbound peer   *)
(* reports the chain beacon of the node in every PeersBeacons message, and at  *)
(* least one such message is handled between two epoch notifications.  The     *)
(* sessions manager sends PeersBeacons once per epoch and the epoch manager   *)
(* a notification per epoch: both are weakly fair.  Blocks and candidates     *)
(* arrive as they may.                                                        *)

\* the last epoch notified
MaxProgressEpoch == 4

ProgressInit ==
    /\ Init
    /\ chain_state = ChainState(BlockBeacon(GenesisBlock))

\* the only outbound peer reports the chain beacon of the node
ProgressPb ==
    <<Some(LastBeacon(chain_state.highest_block_checkpoint,
                      SuperblockBeaconAt(chain_state.highest_block_checkpoint.checkpoint)))>>

\* ticks.at: whether an epoch was notified; ticks.since: whether a
\* PeersBeacons message was handled since
ProgressEpochNotification ==
    /\ ~panicked
    /\ current_epoch.val < MaxProgressEpoch
    /\ IsNone(ticks.at) \/ ticks.since = 1
    /\ LET r == EpochNotificationResult(current_epoch.val + 1)
       IN  Commit(r.act) /\ last' = r.obs
    /\ ticks' = [at |-> Some(FALSE), since |-> 0]
    /\ UNCHANGED << arb_vars, core, epoch_manager, controller, app >>

ProgressPeersBeacons ==
    /\ ~panicked
    /\ chain_state.highest_block_checkpoint.hash_prev_block # BootstrapHash
    /\ \E r \in PeersBeaconsResultsFor(ProgressPb) : Commit(r.act) /\ last' = r.obs
    /\ ticks' = [ticks EXCEPT !.since = 1]
    /\ UNCHANGED << arb_vars, core, epoch_manager, controller, app >>

NextProgress ==
    ProgressEpochNotification \/ ProgressPeersBeacons \/ AddBlocks \/ AddCandidates

\* handling the PeersBeacons message changes the state of the machine
PeersBeaconsAwaited ==
    /\ ~panicked
    /\ chain_state.highest_block_checkpoint.hash_prev_block # BootstrapHash
    /\ sm_state \in {WaitingConsensus, AlmostSynced}

\* weak fairness of ProgressPeersBeacons, spelled out over the states where
\* the message is awaited: it is not awaited forever without being handled
PeersBeaconsFairlyHandled ==
    \/ []<>(~PeersBeaconsAwaited)
    \/ []<><<last'.msg = "PeersBeacons">>_vars

SpecProgress ==
    /\ ProgressInit
    /\ [][NextProgress]_vars
    /\ WF_vars(ProgressEpochNotification)
    /\ PeersBeaconsFairlyHandled

\* C39: among peers that agree with it, with every epoch notified and a
\* PeersBeacons message between two notifications, a node in WaitingConsensus
\* eventually is Synced; it becomes Synced from AlmostSynced only, and once
\* Synced it is never in WaitingConsensus again.
C39_AgreeingPeersLeadToSynced ==
    /\ (sm_state = WaitingConsensus) ~> (sm_state = Synced)
    /\ [][(sm_state # Synced /\ sm_state' = Synced) => sm_state = AlmostSynced]_vars
    /\ [](sm_state = Synced => [](sm_state # WaitingConsensus))

\* the node is Synced at the last epoch, on the block of epoch 1 it consolidated
\* on the way
C39_SyncedAtLastEpoch ==
    /\ sm_state = Synced
    /\ current_epoch = Some(MaxProgressEpoch)
    /\ chain_state.highest_block_checkpoint.checkpoint = 1
    /\ last.msg = "PeersBeacons"
    /\ last.pre_state = Synced

----------------------------------------------------------------------------
(* The Controller of net/src/server/ws/actors/controller.rs.  A subscriber is *)
(* named by a number; a shutdown round is the join_all future one signal      *)
(* spawns: the recipients it sent Shutdown to, the places of those that have  *)
(* replied, and whether a send failed with a mailbox error.                   *)

\* the longest list of subscribers
MaxSubscribers == 2

\* the most signals that start a shutdown
MaxSignals == 2

\* Controller::default().timeout, in seconds
ControllerTimeout == 10

SubscriberIds == {1, 2}

SignalTypes == {"Hup", "Int", "Term", "Quit", "Child"}

\* Controller::default, not stopped, no future spawned
ControllerDefault ==
    [timeout |-> ControllerTimeout, subscribers |-> << >>, rounds |-> << >>,
     stopped |-> FALSE]

\* Handler<Subscribe>
SubscribeHandler(c, recipient) ==
    [c EXCEPT !.subscribers = Append(@, recipient)]

\* Controller::shutdown: Shutdown { timeout } is sent to every subscriber and
\* the join_all of the requests is spawned
shutdown(c, timeout) ==
    [c EXCEPT !.rounds = Append(@, [to |-> c.subscribers, timeout |-> timeout,
                                    replied |-> {}, failed |-> FALSE])]

\* Handler<signal::Signal>
SignalHandler(c, type) ==
    CASE type = "Quit" -> shutdown(c, None)
      [] type \in {"Term", "Int"} -> shutdown(c, Some(c.timeout))
      [] OTHER -> c

\* join_all that resolves with the first reply
join_all_first(round) ==
    IF round.failed THEN "Err"
    ELSE IF round.replied # {} \/ round.to = << >> THEN "Ok"
    ELSE "NotReady"

\* future::join_all over the requests of a round: an error as soon as one
\* request fails, ready when every request has resolved
join_all(round) ==
    IF round.failed THEN "Err"
    ELSE IF round.replied = 1..Len(round.to) THEN "Ok"
    ELSE "NotReady"

ControllerInit ==
    /\ sm_state = WaitingConsensus
    /\ current_epoch = Some(0)
    /\ peers_beacons_received = FALSE
    /\ chain_state = ChainState(BlockBeacon(GenesisBlock))
    /\ storage = Some(chain_state)
    /\ sync_target = None
    /\ candidates = {}
    /\ seen_candidates = {}
    /\ best_candidate = None
    /\ sync_waiting_for_add_blocks_since = None
    /\ panicked = FALSE
    /\ transactions_pool = EmptyPool
    /\ mining_enabled = TRUE
    /\ core = None
    /\ epoch_manager = None
    /\ controller = ControllerDefault
    /\ app = None
    /\ last = [msg |-> "none"]
    /\ ticks = [at |-> None, since |-> 0]
    /\ arb_in = None
    /\ arb_out = None

\* an actor subscribes
ControllerSubscribe ==
    /\ ~controller.stopped
    /\ Len(controller.subscribers) < MaxSubscribers
    /\ \E recipient \in SubscriberIds :
          /\ controller' = SubscribeHandler(controller, recipient)
          /\ last' = [msg |-> "Subscribe"]
    /\ UNCHANGED << node_vars, core, epoch_manager, app, ticks, arb_vars >>

\* the process receives a signal
ControllerSignal ==
    /\ ~controller.stopped
    /\ Len(controller.rounds) < MaxSignals
    /\ \E type \in SignalTypes :
          /\ controller' = SignalHandler(controller, type)
          /\ last' = [msg |-> "Signal", type |-> type,
                      subscribers |-> controller.subscribers,
                      rounds |-> Len(controller.rounds)]
    /\ UNCHANGED << node_vars, core, epoch_manager, app, ticks, arb_vars >>

\* a subscriber answers a Shutdown message, with Ok(()) or Err(TimeoutError):
\* the request resolves either way
SubscriberReplies ==
    /\ \E i \in 1..Len(controller.rounds) :
          \E j \in (1..Len(controller.rounds[i].to)) \ controller.rounds[i].replied :
              \E reply \in {Ok("unit"), Err("TimeoutError")} :
                  /\ ~controller.rounds[i].failed
                  /\ controller' = [controller EXCEPT !.rounds[i].replied = @ \cup {j}]
                  /\ last' = [msg |-> "ShutdownReply", round |-> i, reply |-> reply]
    /\ UNCHANGED << node_vars, core, epoch_manager, app, ticks, arb_vars >>

\* a request fails with a MailboxError: the subscriber is gone
SubscriberMailboxFails ==
    /\ \E i \in 1..Len(controller.rounds) :
          /\ ~controller.rounds[i].failed
          /\ controller.rounds[i].replied # 1..Len(controller.rounds[i].to)
          /\ controller' = [controller EXCEPT !.rounds[i].failed = TRUE]
          /\ last' = [msg |-> "MailboxError", round |-> i]
    /\ UNCHANGED << node_vars, core, epoch_manager, app, ticks, arb_vars >>

\* the context polls a spawned future that is ready: ctx.stop()
ControllerJoined ==
    /\ ~controller.stopped
    /\ \E i \in 1..Len(controller.rounds) :
          /\ join_all(controller.rounds[i]) = "Ok"
          /\ controller' = [controller EXCEPT !.stopped = TRUE]
          /\ last' = [msg |-> "Joined", round |-> i]
    /\ UNCHANGED << node_vars, core, epoch_manager, app, ticks, arb_vars >>

NextController ==
    \/ ControllerSubscribe
    \/ ControllerSignal
    \/ SubscriberReplies
    \/ SubscriberMailboxFails
    \/ ControllerJoined

\* the context of an actor polls its spawned futures: weak fairness
SpecController ==
    ControllerInit /\ [][NextController]_vars /\ WF_vars(ControllerJoined)

\* every subscriber of the round has replied and no request failed
RoundComplete(round) == ~round.failed /\ round.replied = 1..Len(round.to)

----------------------------------------------------------------------------
(* The node probe of the wallet App, wallet/src/actors/app/methods.rs.  A     *)
(* session wallet is named by a number that is also its session id.  The App  *)
(* state keeps node_state, the session wallets, the sessions that subscribed  *)
(* a sink, the requests in flight and whether the probe timer is set.         *)

\* the most syncStatus requests in flight
MaxInFlight == 2

WalletIds == {1, 2}

\* what a syncStatus request can resolve to: a status, or a value that is not one
ProbeReplies == StateMachine \cup {"unparsable"}

RequestErrors == {"JsonRpcTimeoutError", "NodeError"}

\* State::default with the first probe due
AppDefault ==
    [node_state |-> None, wallets |-> {}, sinks |-> {}, probes |-> << >>,
     status_requests |-> {}, sync_requests |-> {}, scheduled |-> TRUE]

\* State::get_sink: the sink the session subscribed, if any
get_sink(a, session_id) ==
    IF session_id \in a.sinks THEN Some(session_id) ELSE None

\* the sequence without its i-th element
RemoveAt(seq, i) == SubSeq(seq, 1, i - 1) \o SubSeq(seq, i + 1, Len(seq))

\* App::periodic_node_request: the wallets are collected, the request is sent
\* and the next call is scheduled
periodic_node_request(a) ==
    [a EXCEPT !.probes = Append(@, [wallets |-> a.wallets]), !.scheduled = TRUE]

\* a failed probe that leaves node_state as it is
ProbeFailedKeepingState(a, probe) ==
    [app |-> a,
     sent |-> {[msg |-> "NotifyStatus", wallet |-> w, sink |-> get_sink(a, w),
                events |-> Some(<<"NodeDisconnected">>)] : w \in probe.wallets}]

\* the map_err branch of the probe: the request failed or timed out
ProbeFailed(a, probe) ==
    [app |-> [a EXCEPT !.node_state = None],
     sent |-> {[msg |-> "NotifyStatus", wallet |-> w, sink |-> get_sink(a, w),
                events |-> Some(<<"NodeDisconnected">>)] : w \in probe.wallets}]

\* the map_ok branch of the probe: the request resolved to res
ProbeSucceeded(a, probe, res) ==
    IF res \in StateMachine /\ Some(res) # a.node_state
    THEN [app |-> [a EXCEPT !.node_state = Some(res),
                            !.status_requests = @ \cup probe.wallets],
          sent |-> {[msg |-> "NodeStatusRequest", status |-> res, wallet |-> w,
                     sink |-> get_sink(a, w)] : w \in probe.wallets}]
    ELSE [app |-> a, sent |-> {}]

\* App::handle_sync_error
handle_sync_error(a, e) ==
    IF e = "JsonRpcTimeoutError" THEN [a EXCEPT !.node_state = None] ELSE a

AppInit ==
    /\ sm_state = WaitingConsensus
    /\ current_epoch = Some(0)
    /\ peers_beacons_received = FALSE
    /\ chain_state = ChainState(BlockBeacon(GenesisBlock))
    /\ storage = Some(chain_state)
    /\ sync_target = None
    /\ candidates = {}
    /\ seen_candidates = {}
    /\ best_candidate = None
    /\ sync_waiting_for_add_blocks_since = None
    /\ panicked = FALSE
    /\ transactions_pool = EmptyPool
    /\ mining_enabled = TRUE
    /\ core = None
    /\ epoch_manager = None
    /\ controller = None
    /\ app = AppDefault
    /\ last = [msg |-> "none"]
    /\ ticks = [at |-> None, since |-> 0]
    /\ arb_in = None
    /\ arb_out = None

\* the timer set by run_later fires
AppProbe ==
    /\ app.scheduled
    /\ Len(app.probes) < MaxInFlight
    /\ app' = periodic_node_request([app EXCEPT !.scheduled = FALSE])
    /\ last' = [msg |-> "Probe", wallets |-> app.wallets]
    /\ UNCHANGED << node_vars, core, epoch_manager, controller, ticks, arb_vars >>

\* a syncStatus request fails or times out
AppProbeFails ==
    /\ \E i \in 1..Len(app.probes) :
          \E e \in RequestErrors :
              LET r == ProbeFailed([app EXCEPT !.probes = RemoveAt(@, i)], app.probes[i])
              IN /\ app' = r.app
                 /\ last' = [msg |-> "ProbeFailed", probe |-> app.probes[i],
                             sent |-> r.sent, err |-> e]
    /\ UNCHANGED << node_vars, core, epoch_manager, controller, ticks, arb_vars >>

\* a syncStatus request gets its result
AppProbeSucceeds ==
    /\ \E i \in 1..Len(app.probes) :
          \E res \in ProbeReplies :
              LET r == ProbeSucceeded([app EXCEPT !.probes = RemoveAt(@, i)],
                                      app.probes[i], res)
              IN /\ app' = r.app
                 /\ last' = [msg |-> "ProbeSucceeded", probe |-> app.probes[i],
                             sent |-> r.sent, res |-> res]
    /\ UNCHANGED << node_vars, core, epoch_manager, controller, ticks, arb_vars >>

\* the worker answers a NodeStatusRequest
AppNodeStatusReply ==
    /\ \E w \in app.status_requests :
          \E res \in {Ok("unit")} \cup {Err(e) : e \in RequestErrors} :
              LET a == [app EXCEPT !.status_requests = @ \ {w}]
              IN /\ app' = IF res.tag = "Err" THEN handle_sync_error(a, res.err) ELSE a
                 /\ last' = [msg |-> "NodeStatusReply", res |-> res]
    /\ UNCHANGED << node_vars, core, epoch_manager, controller, ticks, arb_vars >>

\* the worker has unlocked a wallet: the continuation of App::unlock_wallet
AppUnlockWallet ==
    /\ \E w \in WalletIds \ app.wallets :
          LET sync == app.node_state \in {Some(Synced), None}
          IN /\ app' = [app EXCEPT !.wallets = @ \cup {w},
                                   !.sync_requests = IF sync THEN @ \cup {w} ELSE @]
             /\ last' = [msg |-> "UnlockWallet", wallet |-> w,
                         sent |-> IF sync
                                  THEN {[msg |-> "SyncRequest", wallet |-> w,
                                         sink |-> get_sink(app, w)]}
                                  ELSE {}]
    /\ UNCHANGED << node_vars, core, epoch_manager, controller, ticks, arb_vars >>

\* the worker answers a SyncRequest
AppSyncReply ==
    /\ \E w \in app.sync_requests :
          \E res \in {Ok("unit")} \cup {Err(e) : e \in RequestErrors} :
              LET a == [app EXCEPT !.sync_requests = @ \ {w}]
              IN /\ app' = IF res.tag = "Err" THEN handle_sync_error(a, res.err) ELSE a
                 /\ last' = [msg |-> "SyncReply", res |-> res]
    /\ UNCHANGED << node_vars, core, epoch_manager, controller, ticks, arb_vars >>

\* App::close_session
AppCloseSession ==
    /\ \E w \in app.wallets :
          /\ app' = [app EXCEPT !.wallets = @ \ {w}, !.sinks = @ \ {w}]
          /\ last' = [msg |-> "CloseSession", wallet |-> w]
    /\ UNCHANGED << node_vars, core, epoch_manager, controller, ticks, arb_vars >>

\* App::subscribe of an active session
AppSubscribe ==
    /\ \E w \in app.wallets \ app.sinks :
          /\ app' = [app EXCEPT !.sinks = @ \cup {w}]
          /\ last' = [msg |-> "Subscribe", wallet |-> w,
                      sent |-> {[msg |-> "NotifyStatus", wallet |-> w,
                                 sink |-> Some(w), events |-> None]}]
    /\ UNCHANGED << node_vars, core, epoch_manager, controller, ticks, arb_vars >>

\* App::unsubscribe
AppUnsubscribe ==
    /\ \E w \in app.sinks :
          /\ app' = [app EXCEPT !.sinks = @ \ {w}]
          /\ last' = [msg |-> "Unsubscribe", wallet |-> w]
    /\ UNCHANGED << node_vars, core, epoch_manager, controller, ticks, arb_vars >>

\* a request in flight resolves: with a result, an error or the timeout
AppProbeResolves == AppProbeFails \/ AppProbeSucceeds

NextApp ==
    \/ AppProbe
    \/ AppProbeFails
    \/ AppProbeSucceeds
    \/ AppNodeStatusReply
    \/ AppUnlockWallet
    \/ AppSyncReply
    \/ AppCloseSession
    \/ AppSubscribe
    \/ AppUnsubscribe

\* the timer of run_later fires, and a request with a timeout resolves
SpecApp ==
    AppInit /\ [][NextApp]_vars /\ WF_vars(AppProbe) /\ WF_vars(AppProbeResolves)

\* the NodeDisconnected notifications for the given wallets, each with the
\* sink its session has at that moment
DisconnectedNotices(a, wallets) ==
    {[msg |-> "NotifyStatus", wallet |-> w, sink |-> get_sink(a, w),
      events |-> Some(<<"NodeDisconnected">>)] : w \in wallets}

\* C31 as stated: a probe that fails or times out sets node_state to None and
\* notifies NodeDisconnected to the sink of every session wallet open then.
C31_FailedProbeNotifiesEveryOpenSession ==
    [][last'.msg = "ProbeFailed" =>
          /\ app'.node_state = None
          /\ DisconnectedNotices(app, app.wallets) \subseteq last'.sent]_vars

\* C31: a probe that fails or times out sets node_state to None and sends
\* NodeDisconnected for exactly the wallets that were open when the probe was
\* sent, each to the sink its session has now; a probe that resolves to a
\* status other than the stored one stores it, any other result leaves
\* node_state alone; every probe schedules the next one before its outcome is
\* known, so a probe is always scheduled and probes are sent again and again.
C31_ProbeTracksNodeAndGoesOn ==
    /\ [][last'.msg = "ProbeFailed" =>
              /\ app'.node_state = None
              /\ last'.sent = DisconnectedNotices(app, last'.probe.wallets)]_vars
    /\ [][last'.msg = "ProbeSucceeded" =>
              app'.node_state =
                  IF last'.res \in StateMachine /\ Some(last'.res) # app.node_state
                  THEN Some(last'.res)
                  ELSE app.node_state]_vars
    /\ [][last'.msg = "Probe" =>
              /\ Len(app'.probes) = Len(app.probes) + 1
              /\ app'.probes[Len(app'.probes)].wallets = app.wallets]_vars
    /\ [](app.scheduled)
    /\ []<>(last.msg = "Probe")

\* a wallet was unlocked while the probe was in flight: the probe timed out,
\* node_state is None, the wallet open at the send was notified and the later
\* one, open and subscribed, was not
C31_LateWalletNotNotified ==
    /\ last.msg = "ProbeFailed"
    /\ last.err = "JsonRpcTimeoutError"
    /\ last.probe.wallets = {1}
    /\ app.wallets = {1, 2}
    /\ app.sinks = {1, 2}
    /\ app.node_state = None
    /\ app.scheduled
    /\ last.sent = {[msg |-> "NotifyStatus", wallet |-> 1, sink |-> Some(1),
                     events |-> Some(<<"NodeDisconnected">>)]}

============================================================================
